---- MODULE Spec2Model ----
(***************************************************************************)
(* Vedic-Sky-View: the Vimshottari Dasha period engines of                 *)
(* predictive_astrology/dasha_predictions.py, core/calc.py and             *)
(* strength_calculator.py, the charts and houses the three build, the      *)
(* Dasha-aware prediction tiers of dasha_predictions.py, the drishti and   *)
(* house analysis of strength_calculator.py, and the workflow of main.py:  *)
(* the displayed chart of core/calc.py, the transit chart of               *)
(* core/transits.py and the aspects of core/aspects.py.                    *)
(*                                                                         *)
(* The ephemeris is outside the model: the sidereal longitudes it returns  *)
(* are inputs.  A dict is held as a function with the list of its keys in  *)
(* insertion order; a formatted text is held as a record of the values it  *)
(* is formatted from.                                                      *)
(*                                                                         *)
(* Number representation.  The Python code computes with floats and        *)
(* datetimes; the model computes with exact integers:                      *)
(*   - a longitude is held in units of 1/LU degree, so that one nakshatra  *)
(*     (360/27 degrees) is SPAN units and 0.0001 degree is 9 units;        *)
(*   - an instant (datetime) is held in minutes since day 0 at 00:00, a    *)
(*     date (datetime.date, or a '%Y-%m-%d' string) is a day number, and   *)
(*     DateOf is the conversion from the one to the other;                 *)
(*   - a 'years' value that the code rounds to 2 decimals is held in       *)
(*     hundredths of a year.                                               *)
(* round() of an exact decimal tie is a choice between the two neighbours, *)
(* since the float nearest to such a value may lie on either side.         *)
(***************************************************************************)
EXTENDS Integers, Sequences, FiniteSets, TLC

VARIABLES
    moon_long,          \* natal Moon sidereal longitude, in units of 1/LU degree
    birth_dt,           \* birth instant, in minutes
    pc,                 \* the step the run has reached
    \* predictive_astrology/dasha_predictions.py
    dasha_info,         \* natal_chart['vimshottari']
    current_date,       \* the date get_current_dasha looks up
    current_maha,       \* get_current_dasha()[0]
    current_antara,     \* get_current_dasha()[1]
    antardasha_periods, \* the sub-period list get_current_dasha builds
    predictions,        \* result of generate_dasha_aware_predictions
    natal_chart,        \* result of calculate_natal_chart, less 'vimshottari'
    transits,           \* result of get_current_transits
    printed,            \* what print_dasha_predictions wrote and how it ended
    predictions_again,  \* result of a second generate_dasha_aware_predictions
    \* core/calc.py
    vimshottari_dasha,  \* chart['vimshottari_dasha']
    mahadasha,          \* the period calculate_antardasha is called for
    antardashas,        \* result of calculate_antardasha
    chart,              \* result of calculate_natal_chart, less the dasha keys
    \* main.py, core/transits.py, core/aspects.py
    display_date,       \* the date the wall clock shows in format_chart_display
    chart_display,      \* the lines of the text format_chart_display returns
    transit_planets,    \* transit_chart['planets'] of get_transit_chart
    natal_aspects,      \* calculate_vedic_aspects(natal_planets)
    transit_aspects,    \* calculate_vedic_aspects(transit_planets)
    \* strength_calculator.py
    current_dt,         \* the instant calculate_current_dasha is asked about
    dasha,              \* result of calculate_current_dasha
    natal_asc_sign_num, \* Chart.asc_sign_num
    house,              \* PlanetPosition.house of the Moon
    natal,              \* main: natal = calculate_chart(birth_dt, ...)
    transit,            \* main: transit = calculate_chart(transit_dt, ...)
    house_transits      \* result of analyze_transits_by_house

dp_vars == <<dasha_info, current_date, current_maha, current_antara,
             antardasha_periods, predictions, natal_chart, transits, printed,
             predictions_again>>
main_vars == <<display_date, chart_display, transit_planets, natal_aspects,
               transit_aspects>>
calc_vars == <<vimshottari_dasha, mahadasha, antardashas, chart, main_vars>>
sc_vars == <<current_dt, dasha, natal_asc_sign_num, house, natal, transit,
             house_transits>>

vars == <<moon_long, birth_dt, pc, dp_vars, calc_vars, sc_vars>>

(***************************************************************************)
(* Bounds of the model                                                     *)
(***************************************************************************)
\* number of equally spaced Moon positions tried inside each nakshatra
MoonGrid == 4
\* number of whole years after the last generated period that a query date may lie
FarYears == 2
\* day number of the birth date
BirthDay == 3

(***************************************************************************)
(* Units                                                                   *)
(***************************************************************************)
\* longitude units per degree: 9 to the 0.0001 degree that round(x, 4) keeps
LU == 9 * 10000
\* span = 360.0 / 27.0 degrees, the width of a nakshatra
SPAN == (360 * LU) \div 27
MinPerDay == 24 * 60
\* 365.25 days
MinPerYear == (36525 * MinPerDay) \div 100

\* the date of an instant: datetime.date() / strftime('%Y-%m-%d')
DateOf(t) == t \div MinPerDay

\* floor(a * b / c) and ceil(a * b / c) without leaving 32 bits
MulDivFloor(a, b, c) == (a \div c) * b + ((a % c) * b) \div c
MulDivCeil(a, b, c) == (a \div c) * b + ((a % c) * b + c - 1) \div c

\* Python round(x / q) to an integer: the set of values it may return
RoundDiv(x, q) ==
    LET lo == x \div q
        r2 == 2 * (x % q)
    IN  IF r2 < q THEN {lo} ELSE IF r2 > q THEN {lo + 1} ELSE {lo, lo + 1}

None == [none |-> TRUE]

(***************************************************************************)
(* predictive_astrology/dasha_predictions.py                               *)
(***************************************************************************)
DASHA_YEARS == [Ketu |-> 7, Venus |-> 20, Sun |-> 6, Moon |-> 10, Mars |-> 7,
                Rahu |-> 18, Jupiter |-> 16, Saturn |-> 19, Mercury |-> 17]

\* the keys of DASHA_YEARS in insertion order
DASHA_YEARS_keys == <<"Ketu", "Venus", "Sun", "Moon", "Mars", "Rahu", "Jupiter",
                      "Saturn", "Mercury">>

DASHA_ORDER == <<"Ketu", "Venus", "Sun", "Moon", "Mars", "Rahu", "Jupiter",
                 "Saturn", "Mercury">>

NAKSHATRA_LORDS == DASHA_ORDER \o DASHA_ORDER \o DASHA_ORDER

\* list.index(x), 0-based
IndexOf(seq, x) == (CHOOSE i \in 1..Len(seq) :
                       seq[i] = x /\ \A j \in 1..(i - 1) : seq[j] # x) - 1

Min(a, b) == IF a < b THEN a ELSE b
Max(a, b) == IF a > b THEN a ELSE b

\* get_nakshatra_info: idx clamped to 0..26, degrees rounded to 4 decimals
get_nakshatra_info(longitude) ==
    LET idx == Max(0, Min(26, longitude \div SPAN))
        m   == longitude % SPAN
    IN  [nakshatra_num |-> idx + 1,
         lord |-> NAKSHATRA_LORDS[idx + 1],
         degrees_in_nakshatra |-> 9 * (CHOOSE d \in RoundDiv(m, 9) : TRUE)]

\* a loop that starts every period the day after the previous one ended
RECURSIVE MahaLoop_NextDay(_, _, _, _)
MahaLoop_NextDay(i, start_idx, cur, periods) ==
    IF i >= Len(DASHA_ORDER) THEN periods
    ELSE LET p   == DASHA_ORDER[((start_idx + i) % Len(DASHA_ORDER)) + 1]
             yrs == DASHA_YEARS[p]
             nxt == cur + yrs * MinPerYear
         IN  MahaLoop_NextDay(i + 1, start_idx, nxt,
                      Append(periods, [planet |-> p,
                                       start_date |-> DateOf(cur + MinPerDay),
                                       end_date |-> DateOf(nxt),
                                       years |-> yrs * 100]))

\* the loop of calculate_vimshottari over the 8 lords after the birth lord
RECURSIVE MahaLoop(_, _, _, _)
MahaLoop(i, start_idx, cur, periods) ==
    IF i >= Len(DASHA_ORDER) THEN periods
    ELSE LET p   == DASHA_ORDER[((start_idx + i) % Len(DASHA_ORDER)) + 1]
             yrs == DASHA_YEARS[p]
             nxt == cur + yrs * MinPerYear
         IN  MahaLoop(i + 1, start_idx, nxt,
                      Append(periods, [planet |-> p,
                                       start_date |-> DateOf(cur),
                                       end_date |-> DateOf(nxt),
                                       years |-> yrs * 100]))

\* balance_years * 365.25 days, in whole minutes (the fraction of a minute
\* never reaches a date, birth_dt being a whole number of minutes); a year
\* has MinPerYear / SPAN minutes per unit, both divided by 120 to stay
\* within 32 bits
BalanceMinutes(total_years, traversed) ==
    MulDivFloor(total_years * (SPAN - traversed), MinPerYear \div 120, SPAN \div 120)

\* round(balance_years, 2), in hundredths of a year: the values it may take
BalanceYearsRounded(total_years, traversed) ==
    RoundDiv(total_years * (SPAN - traversed), SPAN \div 100)

\* calculate_vimshottari; years_r is the value round(balance_years, 2) took
calculate_vimshottari(moon, birth, years_r) ==
    LET nak         == get_nakshatra_info(moon)
        birth_lord  == nak.lord
        traversed   == nak.degrees_in_nakshatra
        total_years == DASHA_YEARS[birth_lord]
        start       == birth
        end         == start + BalanceMinutes(total_years, traversed)
        first       == [planet |-> birth_lord,
                        start_date |-> DateOf(start),
                        end_date |-> DateOf(end),
                        years |-> years_r]
        start_idx   == IndexOf(DASHA_ORDER, birth_lord)
    IN  [birth_nakshatra_lord |-> birth_lord,
         periods |-> MahaLoop(1, start_idx, end, <<first>>)]

\* a lookup that forgets the lower bound of the period
FirstContaining_NoLowerBound(periods, d) ==
    LET hits == {i \in 1..Len(periods) : d <= periods[i].end_date}
    IN  IF hits = {} THEN None
        ELSE periods[CHOOSE i \in hits : \A j \in hits : i <= j]

\* the first period of a list with start_date <= d <= end_date, or None
FirstContaining(periods, d) ==
    LET hits == {i \in 1..Len(periods) :
                    periods[i].start_date <= d /\ d <= periods[i].end_date}
    IN  IF hits = {} THEN None
        ELSE periods[CHOOSE i \in hits : \A j \in hits : i <= j]

\* int((DASHA_YEARS[antara_lord] * current_maha['years'] * 365.25) / 120),
\* maha_years in hundredths of a year: 365.25 / (120 * 100) = 1461 / 48000
AntaraDays(antara_lord, maha_years) ==
    (DASHA_YEARS[antara_lord] * maha_years * 1461) \div 48000

\* the Antardasha loop of get_current_dasha, with its break
RECURSIVE AntaraLoop(_, _, _, _, _)
AntaraLoop(i, start_idx, current_start, maha, acc) ==
    IF i >= Len(DASHA_ORDER) THEN acc
    ELSE LET antara_lord == DASHA_ORDER[((start_idx + i) % Len(DASHA_ORDER)) + 1]
             antara_days == AntaraDays(antara_lord, maha.years)
             raw_end     == current_start + antara_days
             antara_end  == IF raw_end > maha.end_date THEN maha.end_date ELSE raw_end
             acc2        == Append(acc, [planet |-> antara_lord,
                                         start_date |-> current_start,
                                         end_date |-> antara_end])
         IN  IF antara_end >= maha.end_date THEN acc2
             ELSE AntaraLoop(i + 1, start_idx, antara_end, maha, acc2)

\* a get_current_dasha whose first loop keeps the last period that holds the
\* date
get_current_dasha_LastMatch(info, date) ==
    LET hits == {i \in 1..Len(info.periods) :
                    /\ info.periods[i].start_date <= date
                    /\ date <= info.periods[i].end_date}
    IN  IF hits = {}
        THEN [maha |-> None, antara |-> None, antardasha_periods |-> <<>>]
        ELSE LET maha == info.periods[CHOOSE i \in hits : \A j \in hits : j <= i]
                 start_idx == IndexOf(DASHA_ORDER, maha.planet)
                 subs == AntaraLoop(0, start_idx, maha.start_date, maha, <<>>)
             IN  [maha |-> maha,
                  antara |-> FirstContaining(subs, date),
                  antardasha_periods |-> subs]

\* get_current_dasha; the list of sub-periods it builds is returned with the
\* pair (current_maha, current_antara)
get_current_dasha(info, date) ==
    LET maha == FirstContaining(info.periods, date)
    IN  IF maha = None
        THEN [maha |-> None, antara |-> None, antardasha_periods |-> <<>>]
        ELSE LET start_idx == IndexOf(DASHA_ORDER, maha.planet)
                 subs == AntaraLoop(0, start_idx, maha.start_date, maha, <<>>)
             IN  [maha |-> maha,
                  antara |-> FirstContaining(subs, date),
                  antardasha_periods |-> subs]

\* list(PLANETS.keys()): the bodies the ephemeris is asked for, in
\* insertion order
PLANETS == <<"Sun", "Moon", "Mercury", "Venus", "Mars", "Jupiter", "Saturn",
             "Rahu">>

\* the houses each body aspects, counted from its own house as the 1st
VEDIC_DRISHTI == [Sun |-> <<7>>, Moon |-> <<7>>, Mars |-> <<4, 7, 8>>,
                  Mercury |-> <<7>>, Jupiter |-> <<5, 7, 9>>, Venus |-> <<7>>,
                  Saturn |-> <<3, 7, 10>>, Rahu |-> <<5, 9>>, Ketu |-> <<5, 9>>]

\* 360 degrees and 30 degrees, in longitude units
Circle == 360 * LU
SignWidth == 30 * LU

\* round(x, 2) of a longitude: the values it may return, in longitude units
Round2(x) == {(LU \div 100) * d : d \in RoundDiv(x, LU \div 100)}

\* int(((longitude - asc) % 360) // 30) + 1
HouseFromAscendant(longitude, asc) == (((longitude - asc) % Circle) \div SignWidth) + 1

\* the planets dict that the loop over PLANETS and the 'Add Ketu' block fill in:
\* sky[p] is the sidereal longitude of p, rounded[p] the value that
\* round(sidereal_long, 2) took, asc the longitude the houses are counted from.
\* 'sign' holds the index into RASIS; 'degrees' is only displayed.
ChartPlanets(sky, rounded, asc) ==
    LET ketu_long == (rounded["Rahu"] + 180 * LU) % Circle
    IN  [p \in {PLANETS[i] : i \in 1..Len(PLANETS)} \cup {"Ketu"} |->
            IF p = "Ketu"
            THEN [longitude |-> ketu_long,
                  sign |-> ketu_long \div SignWidth,
                  house |-> HouseFromAscendant(ketu_long, asc)]
            ELSE [longitude |-> rounded[p],
                  sign |-> sky[p] \div SignWidth,
                  house |-> HouseFromAscendant(sky[p], asc)]]

\* calculate_natal_chart without chart['vimshottari']: sidereal_asc and sky
\* are what the ephemeris gave, asc_r is the value round(sidereal_asc, 2) took;
\* keys is the insertion order of chart['planets']
calculate_natal_chart(sidereal_asc, sky, asc_r, rounded) ==
    [ascendant |-> [longitude |-> asc_r, sign |-> sidereal_asc \div SignWidth],
     planets |-> ChartPlanets(sky, rounded, sidereal_asc),
     keys |-> PLANETS \o <<"Ketu">>]

\* a get_current_transits that enters Ketu before the other bodies
get_current_transits_KetuFirst(natal_asc_long, sky, rounded) ==
    [planets |-> ChartPlanets(sky, rounded, natal_asc_long),
     keys |-> <<"Ketu">> \o PLANETS]

\* get_current_transits; the timestamp is only displayed
get_current_transits(natal_asc_long, sky, rounded) ==
    [planets |-> ChartPlanets(sky, rounded, natal_asc_long),
     keys |-> PLANETS \o <<"Ketu">>]

\* check_aspect: the loop over VEDIC_DRISHTI[planet_name]
check_aspect(transit_planet_house, natal_planet_house, planet_name) ==
    /\ planet_name \in DOMAIN VEDIC_DRISHTI
    /\ \E k \in 1..Len(VEDIC_DRISHTI[planet_name]) :
          LET aspect == VEDIC_DRISHTI[planet_name][k]
              aspected_house == ((transit_planet_house - 1 + aspect) % 12) + 1
          IN  aspected_house = natal_planet_house

\* an inner loop that promotes an aspect when the planet casting it is a
\* Dasha lord
AspectLoop_CasterLord(natal_chart_, planet, t_house, maha_lord, antara) ==
    LET aspected == SelectSeq(natal_chart_.keys,
                              LAMBDA n : check_aspect(t_house,
                                                      natal_chart_.planets[n].house,
                                                      planet))
    IN  [k \in 1..Len(aspected) |->
            LET n_planet == aspected[k]
                n_data   == natal_chart_.planets[n_planet]
            IN  IF planet = maha_lord
                THEN [list |-> "high_priority",
                      text |-> "aspects YOUR NATAL MAHADASHA LORD",
                      planet |-> planet, n_planet |-> n_planet]
                ELSE IF antara # None /\ planet = antara.planet
                THEN [list |-> "high_priority",
                      text |-> "aspects YOUR NATAL ANTARDASHA LORD",
                      planet |-> planet, n_planet |-> n_planet]
                ELSE [list |-> "aspects",
                      text |-> "aspects natal",
                      planet |-> planet, n_planet |-> n_planet,
                      house |-> n_data.house]]

\* the inner loop of generate_dasha_aware_predictions over the natal planets,
\* for one transiting planet: the texts it appends, in the order it appends
\* them; a record stands for a text, with the values the text is formatted
\* from and the list it is appended to
AspectLoop(natal_chart_, planet, t_house, maha_lord, antara) ==
    LET aspected == SelectSeq(natal_chart_.keys,
                              LAMBDA n : check_aspect(t_house,
                                                      natal_chart_.planets[n].house,
                                                      planet))
    IN  [k \in 1..Len(aspected) |->
            LET n_planet == aspected[k]
                n_data   == natal_chart_.planets[n_planet]
            IN  IF n_planet = maha_lord
                THEN [list |-> "high_priority",
                      text |-> "aspects YOUR NATAL MAHADASHA LORD",
                      planet |-> planet, n_planet |-> n_planet]
                ELSE IF antara # None /\ n_planet = antara.planet
                THEN [list |-> "high_priority",
                      text |-> "aspects YOUR NATAL ANTARDASHA LORD",
                      planet |-> planet, n_planet |-> n_planet]
                ELSE [list |-> "aspects",
                      text |-> "aspects natal",
                      planet |-> planet, n_planet |-> n_planet,
                      house |-> n_data.house]]

\* a tier choice that puts the Antardasha lord with the other planets
TransitText_AntaraGeneral(planet, t_data, maha_lord, antara) ==
    IF planet = maha_lord
    THEN [list |-> "high_priority",
          text |-> "YOUR MAHADASHA LORD transiting",
          planet |-> planet, sign |-> t_data.sign, house |-> t_data.house]
    ELSE [list |-> "general_transits",
          text |-> "transiting",
          planet |-> planet, sign |-> t_data.sign, house |-> t_data.house]

\* the if / elif / else on the transiting planet: the prediction_text
\* appended for it
TransitText(planet, t_data, maha_lord, antara) ==
    IF planet = maha_lord
    THEN [list |-> "high_priority",
          text |-> "YOUR MAHADASHA LORD transiting",
          planet |-> planet, sign |-> t_data.sign, house |-> t_data.house]
    ELSE IF antara # None /\ planet = antara.planet
    THEN [list |-> "high_priority",
          text |-> "Your Antardasha Lord transiting",
          planet |-> planet, sign |-> t_data.sign, house |-> t_data.house]
    ELSE [list |-> "general_transits",
          text |-> "transiting",
          planet |-> planet, sign |-> t_data.sign, house |-> t_data.house]

\* the outer loop of generate_dasha_aware_predictions over the transiting
\* planets, from the i-th on: all the texts appended, in the order of the
\* appends
RECURSIVE TransitLoop(_, _, _, _, _)
TransitLoop(i, natal_chart_, transits_, maha_lord, antara) ==
    IF i > Len(transits_.keys) THEN <<>>
    ELSE LET planet == transits_.keys[i]
             t_data == transits_.planets[planet]
         IN  <<TransitText(planet, t_data, maha_lord, antara)>>
             \o AspectLoop(natal_chart_, planet, t_data.house, maha_lord, antara)
             \o TransitLoop(i + 1, natal_chart_, transits_, maha_lord, antara)

\* predictions[name]: the texts appended to that list, in order
TierList(appended, name) == SelectSeq(appended, LAMBDA r : r.list = name)

\* generate_dasha_aware_predictions, today being the datetime.now().date()
\* that get_current_dasha(dasha_info) reads
generate_dasha_aware_predictions(natal_chart_, transits_, info, today) ==
    LET cur == get_current_dasha(info, today)
    IN  IF cur.maha = None
        THEN [error |-> "Could not determine current Dasha period"]
        ELSE LET appended == TransitLoop(1, natal_chart_, transits_,
                                         cur.maha.planet, cur.antara)
             IN  [dasha_context |->
                     [mahadasha |-> cur.maha.planet,
                      mahadasha_period |-> <<cur.maha.start_date, cur.maha.end_date>>,
                      antardasha |-> IF cur.antara = None THEN None
                                     ELSE [planet |-> cur.antara.planet],
                      antardasha_period |-> IF cur.antara = None THEN None
                                            ELSE [period |-> <<cur.antara.start_date,
                                                               cur.antara.end_date>>]],
                  high_priority |-> TierList(appended, "high_priority"),
                  medium_priority |-> TierList(appended, "medium_priority"),
                  general_transits |-> TierList(appended, "general_transits"),
                  aspects |-> TierList(appended, "aspects")]

\* print_dasha_predictions: what reaches standard output and how the call
\* ends; predictions['dasha_context'] raises KeyError when the key is absent
print_dasha_predictions(predictions_) ==
    IF "dasha_context" \notin DOMAIN predictions_
    THEN [stdout |-> <<[text |-> "DASHA-AWARE PREDICTIONS"]>>,
          raised |-> "KeyError"]
    ELSE [stdout |-> <<[text |-> "DASHA-AWARE PREDICTIONS"],
                       [text |-> "CURRENT LIFE PHASE"],
                       [text |-> "HIGH PRIORITY TRANSITS"]>>
                     \o (IF predictions_.high_priority # <<>>
                         THEN predictions_.high_priority
                         ELSE <<[text |-> "No high priority transits at this time."]>>)
                     \o <<[text |-> "IMPORTANT ASPECTS"]>>
                     \o (IF predictions_.aspects # <<>>
                         THEN predictions_.aspects
                         ELSE <<[text |-> "No major aspects detected."]>>)
                     \o <<[text |-> "GENERAL TRANSITS"]>>
                     \o predictions_.general_transits,
          raised |-> "none"]

(***************************************************************************)
(* core/calc.py                                                            *)
(***************************************************************************)
CALC_DASHA_YEARS == [Ketu |-> 7, Venus |-> 20, Sun |-> 6, Moon |-> 10,
                     Mars |-> 7, Rahu |-> 18, Jupiter |-> 16, Saturn |-> 19,
                     Mercury |-> 17]

\* the keys of core/calc.py DASHA_YEARS in insertion order
CALC_DASHA_YEARS_keys == <<"Ketu", "Venus", "Sun", "Moon", "Mars", "Rahu",
                           "Jupiter", "Saturn", "Mercury">>

CALC_DASHA_ORDER == <<"Ketu", "Venus", "Sun", "Moon", "Mars", "Rahu",
                      "Jupiter", "Saturn", "Mercury">>

CALC_NAKSHATRA_LORDS ==
    <<"Ketu", "Venus", "Sun", "Moon", "Mars", "Rahu", "Jupiter", "Saturn", "Mercury",
      "Ketu", "Venus", "Sun", "Moon", "Mars", "Rahu", "Jupiter", "Saturn", "Mercury",
      "Ketu", "Venus", "Sun", "Moon", "Mars", "Rahu", "Jupiter", "Saturn", "Mercury">>

\* core/calc.py get_nakshatra_info: no clamp, degrees rounded to 2 decimals;
\* traversed_r is the value round(longitude % (360/27), 2) took, in units
calc_get_nakshatra_info(longitude, traversed_r) ==
    LET nakshatra_num == longitude \div SPAN
    IN  [nakshatra_num |-> nakshatra_num + 1,
         lord |-> CALC_NAKSHATRA_LORDS[nakshatra_num + 1],
         degrees_in_nakshatra |-> traversed_r]

\* the values round(longitude % (360/27), 2) may take, in units
CalcTraversedRounded(longitude) ==
    {900 * d : d \in RoundDiv(longitude % SPAN, 900)}

\* the loop of calculate_vimshottari_dasha over the remaining 8 lords
RECURSIVE CalcMahaLoop(_, _, _, _)
CalcMahaLoop(i, start_idx, current_date_, dasha_periods) ==
    IF i >= Len(CALC_DASHA_ORDER) THEN dasha_periods
    ELSE LET planet   == CALC_DASHA_ORDER[((start_idx + i) % Len(CALC_DASHA_ORDER)) + 1]
             years    == CALC_DASHA_YEARS[planet]
             end_date == current_date_ + years * MinPerYear
         IN  CalcMahaLoop(i + 1, start_idx, end_date,
                          Append(dasha_periods,
                                 [planet |-> planet,
                                  start_date |-> DateOf(current_date_),
                                  end_date |-> DateOf(end_date),
                                  years |-> years * 100,
                                  is_balance |-> FALSE]))

\* calculate_vimshottari_dasha; dt is the parsed birth instant, traversed_r and
\* years_r the values the two round() calls took
calculate_vimshottari_dasha(moon_longitude, dt, traversed_r, years_r) ==
    LET nak_info   == calc_get_nakshatra_info(moon_longitude, traversed_r)
        birth_nakshatra_lord == nak_info.lord
        traversed  == nak_info.degrees_in_nakshatra
        total_years == CALC_DASHA_YEARS[birth_nakshatra_lord]
        start_idx  == IndexOf(CALC_DASHA_ORDER, birth_nakshatra_lord)
        end_date   == dt + BalanceMinutes(total_years, traversed)
        first      == [planet |-> birth_nakshatra_lord,
                       start_date |-> DateOf(dt),
                       end_date |-> DateOf(end_date),
                       years |-> years_r,
                       is_balance |-> TRUE]
    IN  [birth_nakshatra_lord |-> birth_nakshatra_lord,
         balance_at_birth |-> years_r,
         periods |-> CalcMahaLoop(1, start_idx, end_date, <<first>>)]

\* total_units = sum(DASHA_YEARS.values())
RECURSIVE SumYears(_, _)
SumYears(table, lords) ==
    IF lords = {} THEN 0
    ELSE LET l == CHOOSE x \in lords : TRUE
         IN  table[l] + SumYears(table, lords \ {l})

\* a total that leaves one lord out of the sum
total_units_OneLordShort ==
    SumYears(CALC_DASHA_YEARS, DOMAIN CALC_DASHA_YEARS \ {"Ketu"})

total_units == SumYears(CALC_DASHA_YEARS, DOMAIN CALC_DASHA_YEARS)

\* the loop of calculate_antardasha.  mahadasha_years is in hundredths of a
\* year, so antardasha_years is the fraction ay_num / (100 * total_units) of
\* a year and lasts ay_num * 1461 / (400 * total_units) days; elapsed is the
\* time since 00:00 of the start date in the same fraction of a day.
RECURSIVE CalcAntarLoop(_, _, _, _, _, _)
CalcAntarLoop(i, start_idx, mahadasha_years, start_day, elapsed, antardashas_) ==
    IF i >= Len(CALC_DASHA_ORDER) THEN antardashas_
    ELSE LET antardasha_planet ==
                 CALC_DASHA_ORDER[((start_idx + i) % Len(CALC_DASHA_ORDER)) + 1]
             ay_num  == mahadasha_years * CALC_DASHA_YEARS[antardasha_planet]
             elapsed2 == elapsed + ay_num * 1461
             day_den == 400 * total_units
         IN  CalcAntarLoop(i + 1, start_idx, mahadasha_years, start_day, elapsed2,
                 Append(antardashas_,
                     [planet |-> antardasha_planet,
                      start_date |-> start_day + elapsed \div day_den,
                      end_date |-> start_day + elapsed2 \div day_den,
                      antardasha_years |-> [num |-> ay_num, den |-> 100 * total_units],
                      \* the values round(antardasha_years, 3) may take,
                      \* in thousandths of a year
                      duration_years |-> RoundDiv(10 * ay_num, total_units),
                      \* the values round(antardasha_years * 12, 1) may take,
                      \* in tenths of a month
                      duration_months |-> RoundDiv(120 * ay_num, 100 * total_units)]))

\* a calculate_antardasha that begins with the lord after the Mahadasha's
calculate_antardasha_NextLord(mahadasha_planet, mahadasha_years, start_day) ==
    CalcAntarLoop(0, IndexOf(CALC_DASHA_ORDER, mahadasha_planet) + 1,
                  mahadasha_years, start_day, 0, <<>>)

\* calculate_antardasha(mahadasha_planet, mahadasha_years, start_date_str);
\* start_day is the day the date string names
calculate_antardasha(mahadasha_planet, mahadasha_years, start_day) ==
    CalcAntarLoop(0, IndexOf(CALC_DASHA_ORDER, mahadasha_planet),
                  mahadasha_years, start_day, 0, <<>>)

\* list(PLANETS.keys()) of core/calc.py, in insertion order
CALC_PLANETS == <<"Sun", "Moon", "Mercury", "Venus", "Mars", "Jupiter",
                  "Saturn", "Rahu", "Ketu">>

\* core/calc.py rounds longitudes to 6 decimals: such a value is held in
\* millionths of a degree
MicroPerDeg == 1000 * 1000

\* a longitude that is a whole number of 0.0001 degrees, as the ascendants
\* are, in millionths of a degree
Micro(x) == (x \div (LU \div 10000)) * (MicroPerDeg \div 10000)

\* round(x, 6) of a longitude, in millionths of a degree; the remainder is a
\* number of ninths of 0.0001 degree, which is never half a millionth
Round6(x) ==
    Micro(x) + (CHOOSE d \in RoundDiv((x % (LU \div 10000)) * (MicroPerDeg \div 10000),
                                      LU \div 10000) : TRUE)

\* int(((longitude - sidereal_asc) % 360) / 30) + 1, in millionths of a degree
CalcHouse(longitude, sidereal_asc) ==
    (((longitude - sidereal_asc) % (360 * MicroPerDeg)) \div (30 * MicroPerDeg)) + 1

\* get_planet_position, for the sidereal longitude the ephemeris gave;
\* 'degrees' is only displayed
get_planet_position(sidereal_long) ==
    LET rasi_num == sidereal_long \div SignWidth
    IN  [longitude |-> Round6(sidereal_long),
         rasi_num |-> rasi_num + 1]

\* core/calc.py calculate_natal_chart without chart['moon_nakshatra'] and
\* chart['vimshottari_dasha']: the ascendant and the loop over PLANETS
calc_calculate_natal_chart(sidereal_asc, sky) ==
    LET asc_rasi == sidereal_asc \div SignWidth
        rahu_pos  == get_planet_position(sky["Rahu"]).longitude
        ketu_long == (rahu_pos + 180 * MicroPerDeg) % (360 * MicroPerDeg)
        ketu_rasi == ketu_long \div (30 * MicroPerDeg)
    IN  [ascendant |-> [longitude |-> Round6(sidereal_asc),
                        rasi_num |-> asc_rasi + 1],
         planets |->
            [planet_name \in {CALC_PLANETS[i] : i \in 1..Len(CALC_PLANETS)} |->
                IF planet_name = "Ketu"
                THEN [longitude |-> ketu_long,
                      rasi_num |-> ketu_rasi + 1,
                      house |-> CalcHouse(ketu_long, Micro(sidereal_asc))]
                ELSE LET planet_data == get_planet_position(sky[planet_name])
                     IN  [longitude |-> planet_data.longitude,
                          rasi_num |-> planet_data.rasi_num,
                          house |-> CalcHouse(planet_data.longitude,
                                              Micro(sidereal_asc))]],
         keys |-> CALC_PLANETS]

\* ---- format_chart_display ----

\* the CURRENT MAHADASHA block of format_chart_display: its heading, the table
\* of the Antardasha periods of current_dasha, each row with its marker, and
\* the CURRENT ANTARDASHA heading for the last row the date falls in.  A line
\* of text is held as the record of the values it is formatted from.
CurrentDashaBlock(current_dasha, current_date_) ==
    LET ads == calculate_antardasha(current_dasha.planet, current_dasha.years,
                                    current_dasha.start_date)
        Marked(ad) == ad.start_date <= current_date_ /\ current_date_ <= ad.end_date
        hit == SelectSeq(ads, Marked)
    IN  <<[line |-> "CURRENT MAHADASHA", planet |-> current_dasha.planet,
           start_date |-> current_dasha.start_date,
           end_date |-> current_dasha.end_date]>>
        \o [k \in 1..Len(ads) |->
               [line |-> "Antardasha", marker |-> Marked(ads[k]),
                planet |-> ads[k].planet, start_date |-> ads[k].start_date,
                end_date |-> ads[k].end_date,
                duration_months |-> ads[k].duration_months]]
        \o (IF hit # <<>>
            THEN <<[line |-> "CURRENT ANTARDASHA", planet |-> current_dasha.planet,
                    antardasha |-> hit[Len(hit)].planet,
                    start_date |-> hit[Len(hit)].start_date,
                    end_date |-> hit[Len(hit)].end_date]>>
            ELSE <<>>)

\* the loop `for period in dasha['periods']` of format_chart_display: a period
\* the date falls in is kept in current_dasha and ends the loop; the
\* `if current_dasha:` block stands inside the loop, after the break
RECURSIVE CurrentDashaLoop(_, _, _, _, _)
CurrentDashaLoop(i, periods, current_date_, current_dasha, output) ==
    IF i > Len(periods) THEN output
    ELSE IF periods[i].start_date <= current_date_
            /\ current_date_ <= periods[i].end_date
         THEN output
         ELSE CurrentDashaLoop(i + 1, periods, current_date_, current_dasha,
                  IF current_dasha # None
                  THEN output \o CurrentDashaBlock(current_dasha, current_date_)
                  ELSE output)

\* format_chart_display(chart): the lines of the text, for the chart, its
\* chart['vimshottari_dasha'] (None when the key is absent) and the date
\* datetime.now().date() gives; the birth details and the Moon's nakshatra
\* are left out
format_chart_display(chart_, dasha_, current_date_) ==
    <<[line |-> "Ascendant", rasi_num |-> chart_.ascendant.rasi_num,
       longitude |-> chart_.ascendant.longitude]>>
    \o [k \in 1..Len(chart_.keys) |->
           [line |-> "Planet", planet |-> chart_.keys[k],
            rasi_num |-> chart_.planets[chart_.keys[k]].rasi_num,
            longitude |-> chart_.planets[chart_.keys[k]].longitude]]
    \o (IF dasha_ = None THEN <<>>
        ELSE <<[line |-> "VIMSHOTTARI DASHA SYSTEM",
                lord |-> dasha_.birth_nakshatra_lord,
                balance_at_birth |-> dasha_.balance_at_birth]>>
             \o [k \in 1..Min(5, Len(dasha_.periods)) |->
                    [line |-> "Mahadasha", planet |-> dasha_.periods[k].planet,
                     start_date |-> dasha_.periods[k].start_date,
                     end_date |-> dasha_.periods[k].end_date,
                     years |-> dasha_.periods[k].years,
                     status |-> dasha_.periods[k].is_balance]]
             \o CurrentDashaLoop(1, dasha_.periods, current_date_, None, <<>>))

(***************************************************************************)
(* core/transits.py                                                        *)
(***************************************************************************)
\* the names in the planets dict of get_transit_chart, in insertion order
TRANSIT_PLANETS == <<"Sun", "Moon", "Mars", "Mercury", "Jupiter", "Venus",
                     "Saturn", "Rahu">>

\* 30 and 180 degrees in hundredths of a degree, the unit of the rounded
\* 'degrees' of get_transit_chart
SignHundredths == 30 * 100
HalfCircleHundredths == 180 * 100

\* chart['planets'] of get_transit_chart: sky[p] is the sidereal longitude
\* of p, degrees_r[p] the value round(degrees_in_sign, 2) took, in hundredths
\* of a degree; 'sign' holds the index into RASIS.  The 2 decimals of the sum
\* of Ketu's degrees survive its round().
get_transit_chart(sky, degrees_r) ==
    LET rahu_sign_idx == sky["Rahu"] \div SignWidth
        ketu_sign_idx == (rahu_sign_idx + 6) % 12
        ketu_degrees  == (degrees_r["Rahu"] + HalfCircleHundredths) % SignHundredths
    IN  [planets |->
            [name \in {TRANSIT_PLANETS[i] : i \in 1..Len(TRANSIT_PLANETS)}
                         \cup {"Ketu"} |->
                IF name = "Ketu"
                THEN [sign |-> ketu_sign_idx, degrees |-> ketu_degrees]
                ELSE [sign |-> (sky[name] \div SignWidth),
                      degrees |-> degrees_r[name]]],
         keys |-> TRANSIT_PLANETS \o <<"Ketu">>]

(***************************************************************************)
(* core/aspects.py                                                         *)
(***************************************************************************)
\* VEDIC_DRISHTI of core/aspects.py and its keys in insertion order
ASPECTS_VEDIC_DRISHTI ==
    [Sun |-> <<3, 6, 10, 11>>, Moon |-> <<7>>, Mars |-> <<4, 7, 8>>,
     Mercury |-> <<7>>, Jupiter |-> <<5, 7, 9>>, Venus |-> <<7>>,
     Saturn |-> <<3, 7, 10>>, Rahu |-> <<5, 9>>, Ketu |-> <<5, 9>>]
ASPECTS_VEDIC_DRISHTI_keys ==
    <<"Sun", "Moon", "Mars", "Mercury", "Jupiter", "Venus", "Saturn", "Rahu",
      "Ketu">>

\* calculate_vedic_aspects(natal_planets), the mapping given as planets_ with
\* its keys in insertion order.  data['house'] raises KeyError for an entry
\* without 'house', houses[house_num] for a house outside 1..12.  The joined
\* texts are held as the lists they are joined from.
calculate_vedic_aspects(planets_, keys_) ==
    IF \E k \in 1..Len(keys_) :
          \/ "house" \notin DOMAIN planets_[keys_[k]]
          \/ planets_[keys_[k]].house \notin 1..12
    THEN [raised |-> "KeyError"]
    ELSE LET present == SelectSeq(ASPECTS_VEDIC_DRISHTI_keys,
                                  LAMBDA planet :
                                      \E k \in 1..Len(keys_) : keys_[k] = planet)
         IN  [raised |-> "none",
              aspects |->
                 [k \in 1..Len(present) |->
                     LET planet == present[k]
                         current_house  == planets_[planet].house
                         drishti_houses == ASPECTS_VEDIC_DRISHTI[planet]
                     IN  [Planet |-> planet,
                          Aspect_Houses |-> drishti_houses,
                          Houses_Affected |->
                             [d \in 1..Len(drishti_houses) |->
                                 ((current_house - 1 + drishti_houses[d]) % 12) + 1]]]]

(***************************************************************************)
(* strength_calculator.py                                                  *)
(***************************************************************************)
VIMSHOTTARI_DASHA == [Ketu |-> 7, Venus |-> 20, Sun |-> 6, Moon |-> 10,
                      Mars |-> 7, Rahu |-> 18, Jupiter |-> 16, Saturn |-> 19,
                      Mercury |-> 17]

\* a key order that lists the lords alphabetically
dasha_sequence_Alphabetical ==
    <<"Jupiter", "Ketu", "Mars", "Mercury", "Moon", "Rahu", "Saturn", "Sun",
      "Venus">>

\* list(VIMSHOTTARI_DASHA.keys()): the keys in insertion order
dasha_sequence == <<"Ketu", "Venus", "Sun", "Moon", "Mars", "Rahu", "Jupiter",
                    "Saturn", "Mercury">>

\* the lords of the nakshatras table inside get_nakshatra
nakshatras == <<"Ketu", "Venus", "Sun", "Moon", "Mars", "Rahu", "Jupiter",
                "Saturn", "Mercury",
                "Ketu", "Venus", "Sun", "Moon", "Mars", "Rahu", "Jupiter",
                "Saturn", "Mercury",
                "Ketu", "Venus", "Sun", "Moon", "Mars", "Rahu", "Jupiter",
                "Saturn", "Mercury">>

\* get_nakshatra: the lord of the nakshatra of a longitude
get_nakshatra(longitude) == nakshatras[((longitude \div SPAN) % 27) + 1]

\* a house rule that forgets to wrap around the zodiac
get_house_number_whole_sign_NoWrap(planet_sign_num, asc_sign_num) ==
    LET offset == planet_sign_num - asc_sign_num
    IN  offset + 1

\* get_house_number_whole_sign
get_house_number_whole_sign(planet_sign_num, asc_sign_num) ==
    LET offset == (planet_sign_num - asc_sign_num) % 12
    IN  offset + 1

\* sign_num = int(longitude // 30) % 12, as calculate_chart computes it
SignNum(longitude) == (longitude \div (30 * LU)) % 12

\* calculate_birth_dasha: years_remaining is exact, in 1/SPAN of a year
calculate_birth_dasha(moon_longitude) ==
    LET lord        == get_nakshatra(moon_longitude)
        nak_start   == (moon_longitude \div SPAN) * SPAN
        total_years == VIMSHOTTARI_DASHA[lord]
    IN  [lord |-> lord,
         years_remaining |-> total_years * SPAN
                             - (moon_longitude - nak_start) * total_years]

\* a duration held in 1/SPAN of a year, in minutes: rounded up, which is the
\* least whole number of minutes not below it, and rounded down
YearsToMinutesCeil(y) == MulDivCeil(y, MinPerYear \div 120, SPAN \div 120)
YearsToMinutesFloor(y) == MulDivFloor(y, MinPerYear \div 120, SPAN \div 120)

\* list rotation seq[k:] + seq[:k], k 0-based
Rotate(seq, k) == [i \in 1..Len(seq) |-> seq[((k + i - 1) % Len(seq)) + 1]]

\* the for/else over ordered_sequence[1:] in calculate_current_dasha.
\* minutes_elapsed is current_dt - birth_dt; balance is years_remaining in
\* minutes, rounded up; full is the sum of the full durations passed (years).
\* years_elapsed < elapsed + dur compares a whole number of minutes with
\* years_remaining plus whole years, so rounding years_remaining up keeps it.
RECURSIVE MahaSearch(_, _, _, _, _)
MahaSearch(i, ordered_sequence, minutes_elapsed, balance, full) ==
    IF i > Len(ordered_sequence)
    THEN [current_maha |-> ordered_sequence[1],
          time_into_maha |-> minutes_elapsed - balance - full * MinPerYear]
    ELSE LET lord == ordered_sequence[i]
             dur  == VIMSHOTTARI_DASHA[lord]
         IN  IF minutes_elapsed < balance + (full + dur) * MinPerYear
             THEN [current_maha |-> lord,
                   time_into_maha |-> minutes_elapsed - balance - full * MinPerYear]
             ELSE MahaSearch(i + 1, ordered_sequence, minutes_elapsed, balance,
                             full + dur)

\* antar_duration = VIMSHOTTARI_DASHA[antar_lord] * maha_duration / 120 years,
\* which is a whole number of minutes
AntarDuration(antar_lord, maha_duration) ==
    VIMSHOTTARI_DASHA[antar_lord] * maha_duration * (MinPerYear \div 120)

\* the Antardasha loop of calculate_current_dasha
RECURSIVE AntarSearch(_, _, _, _, _, _)
AntarSearch(i, antar_sequence, maha_duration, time_into_maha, cumulative, current_antar) ==
    IF i > Len(antar_sequence) THEN current_antar
    ELSE LET antar_lord     == antar_sequence[i]
             antar_duration == AntarDuration(antar_lord, maha_duration)
         IN  IF time_into_maha < cumulative + antar_duration
             THEN antar_lord
             ELSE AntarSearch(i + 1, antar_sequence, maha_duration, time_into_maha,
                              cumulative + antar_duration, current_antar)

\* calculate_current_dasha.  years_into_maha is returned in whole minutes,
\* rounded down; mahadasha_start is an instant in minutes.
calculate_current_dasha(birth, moon_longitude, current) ==
    LET bd              == calculate_birth_dasha(moon_longitude)
        birth_lord      == bd.lord
        years_remaining == bd.years_remaining
        minutes_elapsed == current - birth
        birth_index     == IndexOf(dasha_sequence, birth_lord)
        ordered_sequence == Rotate(dasha_sequence, birth_index)
        in_balance      == minutes_elapsed < YearsToMinutesCeil(years_remaining)
        found == IF in_balance
                 THEN [current_maha |-> birth_lord,
                       time_into_maha |-> minutes_elapsed]
                 ELSE MahaSearch(2, ordered_sequence, minutes_elapsed,
                                 YearsToMinutesCeil(years_remaining), 0)
        maha_start == IF in_balance THEN birth
                      ELSE birth + (YearsToMinutesFloor(years_remaining)
                                       \div MinPerDay) * MinPerDay
        current_maha_  == found.current_maha
        maha_duration  == VIMSHOTTARI_DASHA[current_maha_]
        antar_sequence == Rotate(ordered_sequence,
                                 IndexOf(ordered_sequence, current_maha_))
    IN  [mahadasha |-> current_maha_,
         mahadasha_start |-> maha_start,
         mahadasha_years |-> maha_duration,
         antardasha |-> AntarSearch(1, antar_sequence, maha_duration,
                                    found.time_into_maha, 0, current_maha_),
         years_into_maha |-> found.time_into_maha]

\* list(PLANETS.keys()) of strength_calculator.py, in insertion order
SC_PLANETS == <<"Sun", "Moon", "Mars", "Mercury", "Jupiter", "Venus", "Saturn",
                "Rahu", "Ketu">>

\* whole-sign offsets at which a body casts full drishti
DRISHTI_OFFSETS == [Sun |-> <<6>>, Moon |-> <<6>>, Mercury |-> <<6>>,
                    Venus |-> <<6>>, Mars |-> <<3, 6, 7>>,
                    Jupiter |-> <<4, 6, 8>>, Saturn |-> <<2, 6, 9>>,
                    Rahu |-> <<6>>, Ketu |-> <<6>>]

DRISHTI_FULL_STRENGTH == 100

\* calculate_planet_position: the sidereal longitude of a body, Ketu being
\* Rahu + 180; sky holds the sidereal longitudes the ephemeris gives
calculate_planet_position(planet_name, sky) ==
    IF planet_name = "Ketu" THEN (sky["Rahu"] + 180 * LU) % Circle
    ELSE sky[planet_name]

\* calculate_chart: asc and sky are what the ephemeris gave; 'sign' is
\* SIGNS[sign_num]; degree_in_sign and is_retrograde are only displayed
calculate_chart(asc, sky, chart_type) ==
    LET asc_sign_num == (asc \div SignWidth) % 12
    IN  [chart_type |-> chart_type,
         ascendant |-> asc,
         asc_sign_num |-> asc_sign_num,
         planets |->
            [planet_name \in {SC_PLANETS[i] : i \in 1..Len(SC_PLANETS)} |->
                LET longitude == calculate_planet_position(planet_name, sky)
                    sign_num  == SignNum(longitude)
                IN  [name |-> planet_name,
                     longitude |-> longitude,
                     sign_num |-> sign_num,
                     house |-> get_house_number_whole_sign(sign_num, asc_sign_num),
                     nakshatra_lord |-> get_nakshatra(longitude)]],
         keys |-> SC_PLANETS]

\* the elements of a list, as a set
Range(seq) == {seq[i] : i \in 1..Len(seq)}

\* planet_drishti_offsets_OneBased: the offsets counted with the own sign as 1
planet_drishti_offsets_OneBased(planet_name) ==
    IF planet_name \in DOMAIN DRISHTI_OFFSETS
    THEN {o + 1 : o \in Range(DRISHTI_OFFSETS[planet_name])}
    ELSE {6}

\* planet_drishti_offsets: DRISHTI_OFFSETS.get(planet_name, [6])
planet_drishti_offsets(planet_name) ==
    IF planet_name \in DOMAIN DRISHTI_OFFSETS
    THEN Range(DRISHTI_OFFSETS[planet_name])
    ELSE {6}

\* a check_drishti that consults the offset table before anything else
check_drishti_TableFirst(transit_, natal_) ==
    LET offsets == planet_drishti_offsets(transit_.name)
        offset  == (natal_.sign_num - transit_.sign_num) % 12
    IN  IF offset \in offsets
        THEN [aspecting_planet |-> transit_.name,
              aspect_type |-> "drishti",
              target_planet |-> natal_.name,
              from_sign |-> transit_.sign_num,
              to_sign |-> natal_.sign_num,
              offset |-> offset,
              strength |-> DRISHTI_FULL_STRENGTH]
        ELSE None

\* check_drishti: an AspectInfo, or None
check_drishti(transit_, natal_) ==
    IF transit_.sign_num = natal_.sign_num
    THEN [aspecting_planet |-> transit_.name,
          aspect_type |-> "conjunction",
          target_planet |-> natal_.name,
          from_sign |-> transit_.sign_num,
          to_sign |-> natal_.sign_num,
          offset |-> 0,
          strength |-> DRISHTI_FULL_STRENGTH]
    ELSE LET offsets == planet_drishti_offsets(transit_.name)
             offset  == (natal_.sign_num - transit_.sign_num) % 12
         IN  IF offset \in offsets
             THEN [aspecting_planet |-> transit_.name,
                   aspect_type |-> "drishti",
                   target_planet |-> natal_.name,
                   from_sign |-> transit_.sign_num,
                   to_sign |-> natal_.sign_num,
                   offset |-> offset,
                   strength |-> DRISHTI_FULL_STRENGTH]
             ELSE None

\* calculate_aspects_jyotish: the aspects of one transiting planet to the
\* natal planets, in the order of natal_planets.values()
calculate_aspects_jyotish(transit_planet, natal_chart_) ==
    LET hit == SelectSeq(natal_chart_.keys,
                         LAMBDA n : check_drishti(transit_planet,
                                                  natal_chart_.planets[n]) # None)
    IN  [k \in 1..Len(hit) |->
            check_drishti(transit_planet, natal_chart_.planets[hit[k]])]

\* all_aspects.extend(aspects) for the transiting planets from the i-th on
RECURSIVE ExtendAspects(_, _, _, _)
ExtendAspects(i, transiting, natal_chart_, transit_chart) ==
    IF i > Len(transiting) THEN <<>>
    ELSE calculate_aspects_jyotish(transit_chart.planets[transiting[i]], natal_chart_)
         \o ExtendAspects(i + 1, transiting, natal_chart_, transit_chart)

\* sum(a.strength for a in all_aspects)
RECURSIVE SumStrength(_, _)
SumStrength(all_aspects, n) ==
    IF n = 0 THEN 0 ELSE all_aspects[n].strength + SumStrength(all_aspects, n - 1)

\* analyze_transits_by_house: one HouseTransit for each house 1..12.  The
\* planet lists hold the names of the planets; overall_strength is held in
\* tenths; house_meaning and interpretation are texts for display.
analyze_transits_by_house(natal_chart_, transit_chart) ==
    [house_num \in 1..12 |->
        LET transiting == SelectSeq(transit_chart.keys,
                             LAMBDA n : transit_chart.planets[n].house = house_num)
            natal_in_house == SelectSeq(natal_chart_.keys,
                             LAMBDA n : natal_chart_.planets[n].house = house_num)
            all_aspects == ExtendAspects(1, transiting, natal_chart_, transit_chart)
            from_planets == IF transiting # <<>> THEN Len(transiting) * 250 ELSE 0
            from_aspects == IF all_aspects # <<>>
                            THEN (SumStrength(all_aspects, Len(all_aspects)) * 4)
                                     \div Len(all_aspects)
                            ELSE 0
        IN  [house_num |-> house_num,
             transiting_planets |-> transiting,
             natal_planets |-> natal_in_house,
             aspects_to_natal |-> all_aspects,
             overall_strength |-> Min(1000, from_planets + from_aspects)]]

(***************************************************************************)
(* Inputs                                                                  *)
(***************************************************************************)
\* positions inside a nakshatra: a grid, 1/8 of the nakshatra (where 15.0
\* degrees lies), a position that round(x, 2) meets as a tie, and two
\* positions just before the end of the nakshatra
MoonFractions == {k * (SPAN \div MoonGrid) : k \in 0..(MoonGrid - 1)}
                 \cup {SPAN \div 8, 450, SPAN - 40, SPAN - 1}

MoonLongitudes == {n * SPAN + f : n \in 0..26, f \in MoonFractions}

\* birth at 00:00 and at 23:59 of the birth date
BirthInstants == {BirthDay * MinPerDay + m : m \in {0, 1439}}

\* the dates a lookup is tried at: around every period boundary, the birth
\* date, the day before it, the date that ends the first Antardasha of the
\* second period, and whole years after the last generated period
QueryDates(info, birth) ==
    LET ps   == info.periods
        last == ps[Len(ps)].end_date
    IN  {DateOf(birth) - 1, DateOf(birth)}
        \cup UNION {{ps[i].start_date + 1, ps[i].end_date - 1, ps[i].end_date}
                     : i \in 1..Len(ps)}
        \cup {ps[2].start_date + AntaraDays(ps[2].planet, ps[2].years)}
        \cup {last + 1 + 365 * k : k \in 0..FarYears}

\* the end of the k-th period of the repeating cycle, counted from birth, in
\* minutes rounded up (k = 0: the balance period)
RECURSIVE CycleBoundary(_, _)
CycleBoundary(moon, k) ==
    IF k = 0
    THEN YearsToMinutesCeil(calculate_birth_dasha(moon).years_remaining)
    ELSE CycleBoundary(moon, k - 1)
         + VIMSHOTTARI_DASHA[dasha_sequence[
               ((IndexOf(dasha_sequence, calculate_birth_dasha(moon).lord) + k)
                   % Len(dasha_sequence)) + 1]] * MinPerYear

\* the instants calculate_current_dasha is asked about: the day before birth,
\* birth, the minute before and the minute of every period boundary of the
\* first cycle, and instants more than 120 years after birth
CurrentInstants(birth, moon) ==
    {birth - MinPerDay, birth, birth + 1}
    \cup UNION {{birth + CycleBoundary(moon, k) - 1, birth + CycleBoundary(moon, k)}
                 : k \in 0..8}
    \cup {birth + (121 + 20 * k) * MinPerYear : k \in 0..FarYears}

\* a longitude given in thousandths of a degree
Deg(thousandths) == thousandths * (LU \div 1000)

\* sidereal ascendants: the middle of Aries, and the end of Pisces, which
\* round(x, 2) takes to 360.0
Ascendants == {Deg(15000), Deg(359996)}

\* sidereal ascendants at the moment of the transits
TransitAscendants == {Deg(100000), Deg(15000)}

\* sidereal longitudes of the bodies other than the Moon at birth; in the
\* first, the Sun is in the sign of the first ascendant at a lower degree and
\* round(x, 2) takes Rahu into the next sign
NatalSkies ==
    {[Sun |-> Deg(10500), Mercury |-> Deg(25250), Venus |-> Deg(47300),
      Mars |-> Deg(95000), Jupiter |-> Deg(200125), Saturn |-> Deg(281700),
      Rahu |-> Deg(179996)],
     [Sun |-> Deg(190000), Mercury |-> Deg(201400), Venus |-> Deg(170200),
      Mars |-> Deg(15600), Jupiter |-> Deg(44000), Saturn |-> Deg(333333),
      Rahu |-> Deg(63127)]}

\* sidereal longitudes of the bodies at the moment of the transits
TransitSkies ==
    {[Sun |-> Deg(200700), Moon |-> Deg(20100), Mercury |-> Deg(215000),
      Venus |-> Deg(245800), Mars |-> Deg(12000), Jupiter |-> Deg(77000),
      Saturn |-> Deg(340250), Rahu |-> Deg(329996)],
     [Sun |-> Deg(16000), Moon |-> Deg(281000), Mercury |-> Deg(359000),
      Venus |-> Deg(31400), Mars |-> Deg(170000), Jupiter |-> Deg(140600),
      Saturn |-> Deg(95500), Rahu |-> Deg(101010)]}

\* the values round(sidereal_long, 2) may take for the bodies of a sky; only
\* the Moon and Rahu are placed where the choice matters
RoundedSkies(sky) ==
    {[p \in DOMAIN sky |->
         IF p = "Moon" THEN moon_r
         ELSE IF p = "Rahu" THEN rahu_r
         ELSE CHOOSE x \in Round2(sky[p]) : TRUE]
       : moon_r \in Round2(sky["Moon"]), rahu_r \in Round2(sky["Rahu"])}

\* the values round(degrees_in_sign, 2) may take for the bodies of a sky, in
\* hundredths of a degree; only Rahu is placed where the choice matters
RoundedDegrees(sky) ==
    {[p \in DOMAIN sky |->
         IF p = "Rahu" THEN rahu_r
         ELSE CHOOSE x \in RoundDiv(sky[p] % SignWidth, LU \div 100) : TRUE]
       : rahu_r \in RoundDiv(sky["Rahu"] % SignWidth, LU \div 100)}

\* the days the wall clock may show when the chart is displayed: a day inside
\* the second generated period and the day after the last one; the birth
\* date when the chart has no periods
DisplayDates(dasha_, birth) ==
    IF dasha_ = None THEN {DateOf(birth)}
    ELSE {dasha_.periods[2].start_date + 400,
          dasha_.periods[Len(dasha_.periods)].end_date + 1}

\* the days the wall clock may show when the predictions are generated: the
\* day before birth, the birth date, the last day of the balance period, a
\* day inside the second and inside the fifth period, and a day after the
\* last generated period
WallClockDates(info, birth) ==
    LET ps == info.periods
    IN  {DateOf(birth) - 1, DateOf(birth), ps[1].end_date,
         ps[2].start_date + 400, ps[5].start_date + 1000,
         ps[Len(ps)].end_date + 1}

\* the days a second call may be made on: the next day and twenty years on
LaterDates(today) == {today + 1, today + 20 * 365}

(***************************************************************************)
(* The programs.  Each run takes one birth (Moon longitude, birth instant) *)
(* and carries it through one of the programs.                             *)
(***************************************************************************)
Init ==
    /\ moon_long \in MoonLongitudes
    /\ birth_dt \in BirthInstants
    /\ pc = "start"
    /\ dasha_info = None
    /\ current_date = -1
    /\ current_maha = None
    /\ current_antara = None
    /\ antardasha_periods = <<>>
    /\ predictions = None
    /\ natal_chart = None
    /\ transits = None
    /\ printed = None
    /\ predictions_again = None
    /\ vimshottari_dasha = None
    /\ mahadasha = None
    /\ antardashas = <<>>
    /\ chart = None
    /\ display_date = -1
    /\ chart_display = <<>>
    /\ transit_planets = None
    /\ natal_aspects = None
    /\ transit_aspects = None
    /\ current_dt = -1
    /\ dasha = None
    /\ natal_asc_sign_num = -1
    /\ house = -1
    /\ natal = None
    /\ transit = None
    /\ house_transits = <<>>

\* ---- predictive_astrology/dasha_predictions.py ----

\* calculate_vimshottari, called for a Moon longitude and a birth instant
CalculateVimshottari ==
    /\ pc = "start"
    /\ \E years_r \in BalanceYearsRounded(
                          DASHA_YEARS[get_nakshatra_info(moon_long).lord],
                          get_nakshatra_info(moon_long).degrees_in_nakshatra) :
          dasha_info' = calculate_vimshottari(moon_long, birth_dt, years_r)
    /\ pc' = "natal"
    /\ UNCHANGED <<moon_long, birth_dt, current_date, current_maha,
                   current_antara, antardasha_periods, predictions,
                   natal_chart, transits, printed, predictions_again>>
    /\ UNCHANGED calc_vars
    /\ UNCHANGED sc_vars

GetCurrentDasha ==
    /\ pc = "natal"
    /\ \E d \in QueryDates(dasha_info, birth_dt) :
          LET cur == get_current_dasha(dasha_info, d)
          IN  /\ current_date' = d
              /\ current_maha' = cur.maha
              /\ current_antara' = cur.antara
              /\ antardasha_periods' = cur.antardasha_periods
    /\ pc' = "dasha"
    /\ UNCHANGED <<moon_long, birth_dt, dasha_info, predictions,
                   natal_chart, transits, printed, predictions_again>>
    /\ UNCHANGED calc_vars
    /\ UNCHANGED sc_vars

\* main: natal_chart = calculate_natal_chart(...), which sets
\* chart['vimshottari'] only `if moon_long:`, that is unless the Moon is at 0.0
CalculateNatalChart ==
    /\ pc = "start"
    /\ \E sidereal_asc \in Ascendants, others \in NatalSkies :
         LET sky == [p \in DOMAIN others \cup {"Moon"} |->
                        IF p = "Moon" THEN moon_long ELSE others[p]]
         IN  \E asc_r \in Round2(sidereal_asc), rounded \in RoundedSkies(sky) :
                natal_chart' = calculate_natal_chart(sidereal_asc, sky, asc_r, rounded)
    /\ IF moon_long # 0
       THEN \E years_r \in BalanceYearsRounded(
                                DASHA_YEARS[get_nakshatra_info(moon_long).lord],
                                get_nakshatra_info(moon_long).degrees_in_nakshatra) :
               dasha_info' = calculate_vimshottari(moon_long, birth_dt, years_r)
       ELSE dasha_info' = None
    /\ pc' = "chart"
    /\ UNCHANGED <<moon_long, birth_dt, current_date, current_maha,
                   current_antara, antardasha_periods, predictions, transits,
                   printed, predictions_again>>
    /\ UNCHANGED calc_vars
    /\ UNCHANGED sc_vars

\* main: transits = get_current_transits(natal_chart['ascendant']['longitude'])
GetCurrentTransits ==
    /\ pc = "chart"
    /\ \E sky \in TransitSkies :
         \E rounded \in RoundedSkies(sky) :
            transits' = get_current_transits(natal_chart.ascendant.longitude,
                                             sky, rounded)
    /\ pc' = "transits"
    /\ UNCHANGED <<moon_long, birth_dt, dasha_info, current_date, current_maha,
                   current_antara, antardasha_periods, predictions, natal_chart,
                   printed, predictions_again>>
    /\ UNCHANGED calc_vars
    /\ UNCHANGED sc_vars

\* main: natal_chart['vimshottari'] raises KeyError when the key was not set
MainVimshottariKeyError ==
    /\ pc = "transits"
    /\ dasha_info = None
    /\ printed' = [stdout |-> <<>>, raised |-> "KeyError"]
    /\ pc' = "exited"
    /\ UNCHANGED <<moon_long, birth_dt, dasha_info, current_date, current_maha,
                   current_antara, antardasha_periods, predictions, natal_chart,
                   transits, predictions_again>>
    /\ UNCHANGED calc_vars
    /\ UNCHANGED sc_vars

\* main: predictions = generate_dasha_aware_predictions(natal_chart, transits,
\* natal_chart['vimshottari']), on the day the wall clock shows
GenerateDashaAwarePredictions ==
    /\ pc = "transits"
    /\ dasha_info # None
    /\ \E today \in WallClockDates(dasha_info, birth_dt) :
          /\ current_date' = today
          /\ predictions' = generate_dasha_aware_predictions(natal_chart, transits,
                                                             dasha_info, today)
    /\ pc' = "predicted"
    /\ UNCHANGED <<moon_long, birth_dt, dasha_info, current_maha,
                   current_antara, antardasha_periods, natal_chart, transits,
                   printed, predictions_again>>
    /\ UNCHANGED calc_vars
    /\ UNCHANGED sc_vars

\* main: print_dasha_predictions(predictions); an exception it raises leaves
\* main, which has no handler, and ends the process
PrintDashaPredictions ==
    /\ pc = "predicted"
    /\ printed' = print_dasha_predictions(predictions)
    /\ pc' = "exited"
    /\ UNCHANGED <<moon_long, birth_dt, dasha_info, current_date, current_maha,
                   current_antara, antardasha_periods, predictions, natal_chart,
                   transits, predictions_again>>
    /\ UNCHANGED calc_vars
    /\ UNCHANGED sc_vars

\* generate_dasha_aware_predictions called once more with the same three
\* arguments, on a later day
GenerateDashaAwarePredictionsAgain ==
    /\ pc = "predicted"
    /\ \E later \in LaterDates(current_date) :
          predictions_again' = generate_dasha_aware_predictions(natal_chart, transits,
                                                               dasha_info, later)
    /\ pc' = "predicted_again"
    /\ UNCHANGED <<moon_long, birth_dt, dasha_info, current_date, current_maha,
                   current_antara, antardasha_periods, predictions, natal_chart,
                   transits, printed>>
    /\ UNCHANGED calc_vars
    /\ UNCHANGED sc_vars

\* ---- core/calc.py ----

\* calculate_natal_chart: chart['vimshottari_dasha'] = calculate_vimshottari_dasha(...)
CalculateVimshottariDasha ==
    /\ pc = "start"
    /\ \E traversed_r \in CalcTraversedRounded(moon_long) :
         \E years_r \in BalanceYearsRounded(
                            CALC_DASHA_YEARS[CALC_NAKSHATRA_LORDS[(moon_long \div SPAN) + 1]],
                            traversed_r) :
            vimshottari_dasha' =
                calculate_vimshottari_dasha(moon_long, birth_dt, traversed_r, years_r)
    /\ pc' = "calc_natal"
    /\ UNCHANGED <<moon_long, birth_dt, mahadasha, antardashas, chart>>
    /\ UNCHANGED main_vars
    /\ UNCHANGED dp_vars
    /\ UNCHANGED sc_vars

\* calculate_antardasha, called as format_chart_display calls it: with the
\* planet, the years and the start date of one of the generated periods
CalculateAntardasha ==
    /\ pc = "calc_natal"
    /\ \E i \in 1..Len(vimshottari_dasha.periods) :
          LET period == vimshottari_dasha.periods[i]
          IN  /\ mahadasha' = period
              /\ antardashas' = calculate_antardasha(period.planet, period.years,
                                                     period.start_date)
    /\ pc' = "calc_antar"
    /\ UNCHANGED <<moon_long, birth_dt, vimshottari_dasha, chart>>
    /\ UNCHANGED main_vars
    /\ UNCHANGED dp_vars
    /\ UNCHANGED sc_vars

\* core/calc.py calculate_natal_chart; the dasha keys are set only
\* `if moon_longitude:`, that is unless the Moon is at 0.0.  The Moon longitude
\* handed on is the one rounded to 6 decimals, which for the Moon positions
\* tried here names the same nakshatra and rounds to the same 2 decimals.
CalcCalculateNatalChart ==
    /\ pc = "start"
    /\ \E sidereal_asc \in Ascendants, others \in NatalSkies :
         LET sky == [p \in DOMAIN others \cup {"Moon"} |->
                        IF p = "Moon" THEN moon_long ELSE others[p]]
         IN  chart' = calc_calculate_natal_chart(sidereal_asc, sky)
    /\ IF moon_long # 0
       THEN \E traversed_r \in CalcTraversedRounded(moon_long) :
              \E years_r \in BalanceYearsRounded(
                                 CALC_DASHA_YEARS[CALC_NAKSHATRA_LORDS[(moon_long \div SPAN) + 1]],
                                 traversed_r) :
                 vimshottari_dasha' =
                     calculate_vimshottari_dasha(moon_long, birth_dt, traversed_r, years_r)
       ELSE vimshottari_dasha' = None
    /\ pc' = "calc_chart"
    /\ UNCHANGED <<moon_long, birth_dt, mahadasha, antardashas>>
    /\ UNCHANGED main_vars
    /\ UNCHANGED dp_vars
    /\ UNCHANGED sc_vars

\* ---- main.py ----

\* main.py: print(format_chart_display(natal_chart))
FormatChartDisplay ==
    /\ pc = "calc_chart"
    /\ \E today \in DisplayDates(vimshottari_dasha, birth_dt) :
          /\ display_date' = today
          /\ chart_display' = format_chart_display(chart, vimshottari_dasha, today)
    /\ pc' = "main_shown"
    /\ UNCHANGED <<moon_long, birth_dt, vimshottari_dasha, mahadasha,
                   antardashas, chart, transit_planets, natal_aspects,
                   transit_aspects>>
    /\ UNCHANGED dp_vars
    /\ UNCHANGED sc_vars

\* main.py: transit_chart = get_transit_chart(latitude, longitude);
\* transit_planets = transit_chart['planets']
GetTransitChart ==
    /\ pc = "main_shown"
    /\ \E sky \in TransitSkies :
         \E degrees_r \in RoundedDegrees(sky) :
            transit_planets' = get_transit_chart(sky, degrees_r)
    /\ pc' = "main_transit"
    /\ UNCHANGED <<moon_long, birth_dt, vimshottari_dasha, mahadasha,
                   antardashas, chart, display_date, chart_display,
                   natal_aspects, transit_aspects>>
    /\ UNCHANGED dp_vars
    /\ UNCHANGED sc_vars

\* main.py: natal_aspects = calculate_vedic_aspects(natal_planets)
NatalAspects ==
    /\ pc = "main_transit"
    /\ natal_aspects' = calculate_vedic_aspects(chart.planets, chart.keys)
    /\ pc' = IF natal_aspects'.raised = "none" THEN "main_natal_aspects"
             ELSE "main_exited"
    /\ UNCHANGED <<moon_long, birth_dt, vimshottari_dasha, mahadasha,
                   antardashas, chart, display_date, chart_display,
                   transit_planets, transit_aspects>>
    /\ UNCHANGED dp_vars
    /\ UNCHANGED sc_vars

\* main.py: transit_aspects = calculate_vedic_aspects(transit_planets); an
\* exception ends the program before display_vedic_aspects
TransitAspects ==
    /\ pc = "main_natal_aspects"
    /\ transit_aspects' = calculate_vedic_aspects(transit_planets.planets,
                                                  transit_planets.keys)
    /\ pc' = IF transit_aspects'.raised = "none" THEN "main_transit_aspects"
             ELSE "main_exited"
    /\ UNCHANGED <<moon_long, birth_dt, vimshottari_dasha, mahadasha,
                   antardashas, chart, display_date, chart_display,
                   transit_planets, natal_aspects>>
    /\ UNCHANGED dp_vars
    /\ UNCHANGED sc_vars

\* ---- strength_calculator.py ----

\* main: natal = calculate_chart(birth_dt, ...) and
\* transit = calculate_chart(transit_dt, ...)
CalculateChart ==
    /\ pc = "start"
    /\ \E asc \in Ascendants, others \in NatalSkies :
         natal' = calculate_chart(asc,
                                  [p \in DOMAIN others \cup {"Moon"} |->
                                      IF p = "Moon" THEN moon_long ELSE others[p]],
                                  "Natal")
    /\ \E asc \in TransitAscendants, sky \in TransitSkies :
         transit' = calculate_chart(asc, sky, "Transit")
    /\ pc' = "sc_charts"
    /\ UNCHANGED <<moon_long, birth_dt, current_dt, dasha, natal_asc_sign_num,
                   house, house_transits>>
    /\ UNCHANGED dp_vars
    /\ UNCHANGED calc_vars

\* main: house_transits = analyze_transits_by_house(natal, transit)
AnalyzeTransitsByHouse ==
    /\ pc = "sc_charts"
    /\ house_transits' = analyze_transits_by_house(natal, transit)
    /\ pc' = "sc_analyzed"
    /\ UNCHANGED <<moon_long, birth_dt, current_dt, dasha, natal_asc_sign_num,
                   house, natal, transit>>
    /\ UNCHANGED dp_vars
    /\ UNCHANGED calc_vars

\* main: dasha = calculate_current_dasha(birth_dt, moon_long, transit_dt)
CalculateCurrentDasha ==
    /\ pc = "start"
    /\ \E t \in CurrentInstants(birth_dt, moon_long) :
          /\ current_dt' = t
          /\ dasha' = calculate_current_dasha(birth_dt, moon_long, t)
    /\ pc' = "sc_dasha"
    /\ UNCHANGED <<moon_long, birth_dt, natal_asc_sign_num, house, natal,
                   transit, house_transits>>
    /\ UNCHANGED dp_vars
    /\ UNCHANGED calc_vars

\* calculate_chart: the whole-sign house of the Moon for an ascendant sign
WholeSignHouse ==
    /\ pc = "start"
    /\ \E a \in 0..11 :
          /\ natal_asc_sign_num' = a
          /\ house' = get_house_number_whole_sign(SignNum(moon_long), a)
    /\ pc' = "sc_chart"
    /\ UNCHANGED <<moon_long, birth_dt, current_dt, dasha, natal, transit,
                   house_transits>>
    /\ UNCHANGED dp_vars
    /\ UNCHANGED calc_vars

Next ==
    \/ CalculateVimshottari
    \/ GetCurrentDasha
    \/ CalculateNatalChart
    \/ GetCurrentTransits
    \/ MainVimshottariKeyError
    \/ GenerateDashaAwarePredictions
    \/ PrintDashaPredictions
    \/ GenerateDashaAwarePredictionsAgain
    \/ CalculateVimshottariDasha
    \/ CalculateAntardasha
    \/ CalcCalculateNatalChart
    \/ FormatChartDisplay
    \/ GetTransitChart
    \/ NatalAspects
    \/ TransitAspects
    \/ CalculateCurrentDasha
    \/ WholeSignHouse
    \/ CalculateChart
    \/ AnalyzeTransitsByHouse

Spec == Init /\ [][Next]_vars

(***************************************************************************)
(* Properties of the dasha_predictions period engine                       *)
(***************************************************************************)
Resolved == pc = "dasha" /\ current_maha # None

\* C1: for every query date on or after the birth date, however many
\* 120-year cycles later, get_current_dasha returns a Mahadasha (not None).
C1_MahadashaFoundForEveryLaterDate ==
    (pc = "dasha" /\ current_date >= DateOf(birth_dt)) => current_maha # None

\* C2: the Antardasha list that get_current_dasha builds for the Mahadasha
\* it resolved ends exactly at the Mahadasha's end date.
C2_LastAntardashaEndsAtMahaEnd ==
    Resolved =>
        /\ Len(antardasha_periods) >= 1
        /\ antardasha_periods[Len(antardasha_periods)].end_date
               = current_maha.end_date

\* C3: get_current_dasha enumerates exactly 9 Antardasha sub-periods for
\* every Mahadasha it resolves, the balance period included.
C3_ExactlyNineAntardashas ==
    Resolved => Len(antardasha_periods) = Len(DASHA_ORDER)

\* C6: with the query date one day before the birth date, get_current_dasha
\* returns (None, None) and generate_dasha_aware_predictions returns its
\* error result, with no dasha context and no substituted period.
C6_DayBeforeBirthFails ==
    current_date = DateOf(birth_dt) - 1 =>
        /\ pc = "dasha" => (current_maha = None /\ current_antara = None)
        /\ pc = "predicted" => DOMAIN predictions = {"error"}

C6_Witness ==
    /\ pc = "predicted"
    /\ current_date = DateOf(birth_dt) - 1
    /\ DOMAIN predictions = {"error"}

(***************************************************************************)
(* Properties of the generated period lists                                *)
(***************************************************************************)
Contiguous(ps) == \A i \in 1..(Len(ps) - 1) : ps[i].end_date = ps[i + 1].start_date
Ordered(ps) == \A i \in 1..Len(ps) : ps[i].start_date <= ps[i].end_date

\* C4: in the Mahadasha lists of calculate_vimshottari_dasha (core/calc.py)
\* and of calculate_vimshottari (dasha_predictions.py), consecutive periods
\* share their boundary date and no period ends before it starts.
C4_MahadashaListsContiguous ==
    /\ dasha_info # None =>
          Contiguous(dasha_info.periods) /\ Ordered(dasha_info.periods)
    /\ vimshottari_dasha # None =>
          Contiguous(vimshottari_dasha.periods) /\ Ordered(vimshottari_dasha.periods)

C4_Witness ==
    /\ pc = "natal"
    /\ Len(dasha_info.periods) = Len(DASHA_ORDER)
    /\ dasha_info.periods[1].years < 100 * DASHA_YEARS[dasha_info.periods[1].planet]
    /\ dasha_info.periods[1].end_date > dasha_info.periods[1].start_date
    /\ dasha_info.periods[2].start_date = dasha_info.periods[1].end_date

RECURSIVE SumNum(_, _)
SumNum(ads, n) == IF n = 0 THEN 0 ELSE ads[n].antardasha_years.num + SumNum(ads, n - 1)

\* C5: calculate_antardasha returns 9 sub-periods; the duration of each,
\* before display rounding, is weight(lord) * Y / 120; the 9 durations sum
\* exactly to Y; each sub-period starts on the date the previous one ends.
C5_AntardashaProportional ==
    pc = "calc_antar" =>
        /\ Len(antardashas) = 9
        /\ \A i \in 1..Len(antardashas) :
              LET ad == antardashas[i]
              IN  ad.antardasha_years.num * 120 * 100
                     = CALC_DASHA_YEARS[ad.planet] * mahadasha.years
                          * ad.antardasha_years.den
        /\ \A i \in 1..Len(antardashas) :
              antardashas[i].antardasha_years.den = antardashas[1].antardasha_years.den
        /\ SumNum(antardashas, Len(antardashas)) * 100
              = mahadasha.years * antardashas[1].antardasha_years.den
        /\ Contiguous(antardashas)

C5_Witness ==
    /\ pc = "calc_antar"
    /\ mahadasha.is_balance
    /\ mahadasha.years % 100 # 0
    /\ Len(antardashas) = 9
    /\ antardashas[9].end_date > antardashas[1].start_date

(***************************************************************************)
(* Properties of strength_calculator.calculate_current_dasha               *)
(***************************************************************************)
\* the lord of the k-th period of the cycle that starts at the birth lord
CycleLord(moon, k) ==
    dasha_sequence[((IndexOf(dasha_sequence, calculate_birth_dasha(moon).lord) + k)
                       % Len(dasha_sequence)) + 1]

\* the period of the indefinitely repeating cycle (balance period, then full
\* periods) that contains the instant minutes_elapsed after birth: its lord
\* and the time since it began, in whole minutes rounded down
RECURSIVE CyclePeriodAt(_, _, _, _)
CyclePeriodAt(moon, minutes_elapsed, k, begin) ==
    LET len == IF k = 0
               THEN YearsToMinutesCeil(calculate_birth_dasha(moon).years_remaining)
               ELSE VIMSHOTTARI_DASHA[CycleLord(moon, k)] * MinPerYear
    IN  IF minutes_elapsed < begin + len
        THEN [lord |-> CycleLord(moon, k), into |-> minutes_elapsed - begin]
        ELSE CyclePeriodAt(moon, minutes_elapsed, k + 1, begin + len)

InBalancePeriod ==
    current_dt - birth_dt
        < YearsToMinutesCeil(calculate_birth_dasha(moon_long).years_remaining)

\* C7: calculate_current_dasha fails, reporting no Mahadasha or Antardasha,
\* when current_dt precedes birth_dt by one day; no period is substituted.
C7_BeforeBirthReportsNoPeriod ==
    (pc = "sc_dasha" /\ current_dt = birth_dt - MinPerDay) =>
        /\ "mahadasha" \notin DOMAIN dasha
        /\ "antardasha" \notin DOMAIN dasha

\* C8: for every current_dt at or after birth_dt, calculate_current_dasha
\* returns the lord of the period of the indefinitely repeating cycle that
\* contains current_dt, with 0 <= years_into_maha < mahadasha_years.
C8_MahadashaOfRepeatingCycle ==
    (pc = "sc_dasha" /\ current_dt >= birth_dt) =>
        /\ dasha.mahadasha
              = CyclePeriodAt(moon_long, current_dt - birth_dt, 0, 0).lord
        /\ 0 <= dasha.years_into_maha
        /\ dasha.years_into_maha < dasha.mahadasha_years * MinPerYear

RECURSIVE SumAntarDurations(_, _)
SumAntarDurations(maha_duration, n) ==
    IF n = 0 THEN 0
    ELSE AntarDuration(dasha_sequence[n], maha_duration)
         + SumAntarDurations(maha_duration, n - 1)

\* C9: the Antardasha durations calculate_current_dasha selects with sum to
\* the duration of the current Mahadasha period, which for the balance
\* period at birth is years_remaining and not the lord's full weight.
\* (Both sides in 1/SPAN of a year.)
C9_AntardashaDurationsSumToPeriod ==
    (pc = "sc_dasha" /\ current_dt >= birth_dt) =>
        MulDivFloor(SumAntarDurations(dasha.mahadasha_years, Len(dasha_sequence)),
                    SPAN \div 120, MinPerYear \div 120)
          = IF InBalancePeriod
            THEN calculate_birth_dasha(moon_long).years_remaining
            ELSE VIMSHOTTARI_DASHA[dasha.mahadasha] * SPAN

(***************************************************************************)
(* Properties of the whole-sign house rule                                 *)
(***************************************************************************)
\* C10: get_house_number_whole_sign(s, a) = ((s - a) mod 12) + 1, lies in
\* 1..12 for all sign indices in 0..11, and is 1 whenever s = a; the house is
\* the one whose sign, counted from the ascendant's, is the planet's sign.
C10_WholeSignHouse ==
    pc = "sc_chart" =>
        LET s == SignNum(moon_long)
            a == natal_asc_sign_num
        IN  /\ s \in 0..11 /\ a \in 0..11
            /\ house = ((s - a) % 12) + 1
            /\ house \in 1..12
            /\ (a + house - 1) % 12 = s
            /\ (s = a => house = 1)

C10_Witness ==
    /\ pc = "sc_chart"
    /\ SignNum(moon_long) < natal_asc_sign_num
    /\ house = SignNum(moon_long) + 12 - natal_asc_sign_num + 1

(***************************************************************************)
(* Properties of the charts                                                *)
(***************************************************************************)
\* C11: in every chart built by calculate_natal_chart (core/calc.py and
\* dasha_predictions.py) and by get_current_transits, the house of each
\* planet is ((planet's sign index - ascendant's sign index) mod 12) + 1, so
\* that a planet in the ascendant's sign is in house 1 whatever its degree.
C11_HouseFromSignIndices ==
    /\ natal_chart # None =>
          \A p \in DOMAIN natal_chart.planets :
             natal_chart.planets[p].house
                = ((natal_chart.planets[p].sign - natal_chart.ascendant.sign) % 12) + 1
    /\ transits # None =>
          \A p \in DOMAIN transits.planets :
             transits.planets[p].house
                = ((transits.planets[p].sign - natal_chart.ascendant.sign) % 12) + 1
    /\ chart # None =>
          \A p \in DOMAIN chart.planets :
             chart.planets[p].house
                = ((chart.planets[p].rasi_num - chart.ascendant.rasi_num) % 12) + 1

(***************************************************************************)
(* Properties of strength_calculator.check_drishti                         *)
(***************************************************************************)
\* C12: check_drishti classifies every transiting and natal planet with the
\* same sign index as a conjunction with offset 0 and strength
\* DRISHTI_FULL_STRENGTH, for every transiting body, whatever its entry in
\* DRISHTI_OFFSETS; analyze_transits_by_house records it with the house of
\* the transiting planet.
C12_SameSignIsConjunction ==
    pc = "sc_analyzed" =>
        \A t \in DOMAIN transit.planets, n \in DOMAIN natal.planets :
           transit.planets[t].sign_num = natal.planets[n].sign_num =>
              LET a == check_drishti(transit.planets[t], natal.planets[n])
              IN  /\ a # None
                  /\ a.aspect_type = "conjunction"
                  /\ a.aspecting_planet = t /\ a.target_planet = n
                  /\ a.offset = 0
                  /\ a.strength = DRISHTI_FULL_STRENGTH
                  /\ a \in Range(house_transits[transit.planets[t].house].aspects_to_natal)

C12_Witness ==
    /\ pc = "sc_analyzed"
    /\ \E t \in DOMAIN transit.planets, n \in DOMAIN natal.planets :
          /\ transit.planets[t].sign_num = natal.planets[n].sign_num
          /\ transit.planets[t].longitude # natal.planets[n].longitude
          /\ \E i \in 1..Len(house_transits[transit.planets[t].house].aspects_to_natal) :
                LET a == house_transits[transit.planets[t].house].aspects_to_natal[i]
                IN  /\ a.aspecting_planet = t /\ a.target_planet = n
                    /\ a.aspect_type = "conjunction"

\* C13: for a transiting and a natal planet in different signs, check_drishti
\* returns a drishti relation exactly when offset = (natal.sign_num -
\* transit.sign_num) mod 12 is in the transiting planet's offset set; the
\* relation carries that offset, which lies in 1..11, and strength
\* DRISHTI_FULL_STRENGTH; otherwise it returns no relation.
C13_DrishtiIffOffsetInTable ==
    pc = "sc_analyzed" =>
        \A t \in DOMAIN transit.planets, n \in DOMAIN natal.planets :
           transit.planets[t].sign_num # natal.planets[n].sign_num =>
              LET a == check_drishti(transit.planets[t], natal.planets[n])
                  offset == (natal.planets[n].sign_num
                               - transit.planets[t].sign_num) % 12
              IN  IF offset \in Range(DRISHTI_OFFSETS[t])
                  THEN /\ a # None
                       /\ a.aspect_type = "drishti"
                       /\ a.aspecting_planet = t /\ a.target_planet = n
                       /\ a.offset = offset
                       /\ a.offset \in 1..11
                       /\ a.strength = DRISHTI_FULL_STRENGTH
                  ELSE a = None

C13_Witness ==
    /\ pc = "sc_analyzed"
    /\ \E n \in DOMAIN natal.planets :
          LET a == check_drishti(transit.planets["Saturn"], natal.planets[n])
          IN  a # None /\ a.aspect_type = "drishti" /\ a.offset = 9
    /\ \E n \in DOMAIN natal.planets :
          /\ transit.planets["Sun"].sign_num # natal.planets[n].sign_num
          /\ check_drishti(transit.planets["Sun"], natal.planets[n]) = None

(***************************************************************************)
(* Properties of the dasha_predictions prediction engine                   *)
(***************************************************************************)
\* C14: in check_aspect, a transiting body that casts the 7th-house aspect
\* (VEDIC_DRISHTI entry containing 7) aspects a natal planet placed 6 houses
\* ahead of it: check_aspect is True when (natal_house - transit_house) mod 12
\* = 6.
C14_SeventhAspectSixHousesAhead ==
    transits # None =>
        \A t \in DOMAIN transits.planets, n \in DOMAIN natal_chart.planets :
           (/\ 7 \in {VEDIC_DRISHTI[t][k] : k \in 1..Len(VEDIC_DRISHTI[t])}
            /\ (natal_chart.planets[n].house - transits.planets[t].house) % 12 = 6)
           => check_aspect(transits.planets[t].house, natal_chart.planets[n].house, t)

Generated == pc = "predicted" /\ "error" \notin DOMAIN predictions

\* the records of a list that were appended for a transiting planet itself,
\* and those appended for an aspect
TransitRecords(list) == SelectSeq(list, LAMBDA r : "sign" \in DOMAIN r)
AspectRecords(list) == SelectSeq(list, LAMBDA r : "n_planet" \in DOMAIN r)

\* how many records of a list satisfy a condition
Count(list, Cond(_)) == Len(SelectSeq(list, Cond))

IsDashaLord(p) ==
    \/ p = predictions.dasha_context.mahadasha
    \/ /\ predictions.dasha_context.antardasha # None
       /\ p = predictions.dasha_context.antardasha.planet

C16_AspectOnDashaLordPromoted ==
    Generated =>
        /\ \A t \in DOMAIN transits.planets, n \in DOMAIN natal_chart.planets :
              LET in_hp  == Count(AspectRecords(predictions.high_priority),
                                  LAMBDA r : r.planet = t /\ r.n_planet = n)
                  in_asp == Count(AspectRecords(predictions.aspects),
                                  LAMBDA r : r.planet = t /\ r.n_planet = n)
              IN  IF ~check_aspect(transits.planets[t].house,
                                   natal_chart.planets[n].house, t)
                  THEN in_hp = 0 /\ in_asp = 0
                  ELSE IF IsDashaLord(n) THEN in_hp = 1 /\ in_asp = 0
                  ELSE in_hp = 0 /\ in_asp = 1
        /\ AspectRecords(predictions.general_transits) = <<>>
        /\ AspectRecords(predictions.medium_priority) = <<>>

C16_Witness ==
    /\ Generated
    /\ \E i \in 1..Len(predictions.high_priority) :
          LET r == predictions.high_priority[i]
          IN  /\ "n_planet" \in DOMAIN r
              /\ r.n_planet = predictions.dasha_context.mahadasha
              /\ ~IsDashaLord(r.planet)
    /\ \E i \in 1..Len(predictions.aspects) :
          IsDashaLord(predictions.aspects[i].planet)

\* the fixed body order
BodyOrder == <<"Sun", "Moon", "Mercury", "Venus", "Mars", "Jupiter", "Saturn",
               "Rahu", "Ketu">>

InBodyOrder(list) ==
    \A i \in 1..Len(list), j \in 1..Len(list) :
       i < j => IndexOf(BodyOrder, list[i].planet) <= IndexOf(BodyOrder, list[j].planet)

\* C17: within each tier list produced by generate_dasha_aware_predictions
\* (high_priority, general_transits, aspects), records appear ordered by
\* transiting planet in the fixed body order Sun, Moon, Mercury, Venus, Mars,
\* Jupiter, Saturn, Rahu, Ketu.
C17_TiersInBodyOrder ==
    Generated =>
        /\ InBodyOrder(predictions.high_priority)
        /\ InBodyOrder(predictions.general_transits)
        /\ InBodyOrder(predictions.aspects)

C17_Witness ==
    /\ Generated
    /\ Len(predictions.high_priority) >= 3
    /\ predictions.high_priority[1].planet
          # predictions.high_priority[Len(predictions.high_priority)].planet
    /\ Len(predictions.aspects) >= 2
    /\ predictions.aspects[1].planet
          # predictions.aspects[Len(predictions.aspects)].planet
    /\ \E i \in 1..Len(predictions.general_transits) :
          predictions.general_transits[i].planet = "Ketu"

\* C18: when no Mahadasha contains the current date, handing the error
\* result of generate_dasha_aware_predictions to print_dasha_predictions
\* completes without raising an exception that ends the process.
C18_ErrorResultPrintedWithoutException ==
    (pc = "exited" /\ predictions # None /\ "error" \in DOMAIN predictions)
        => printed.raised = "none"

\* C19: generate_dasha_aware_predictions and the get_current_dasha it calls
\* are deterministic functions of their arguments: two invocations with equal
\* natal chart, transits and dasha_info return equal results, whatever the
\* wall-clock date.
C19_SameArgumentsSameResult ==
    pc = "predicted_again" => predictions_again = predictions

(***************************************************************************)
(* Properties of strength_calculator.analyze_transits_by_house             *)
(***************************************************************************)
\* every relation check_drishti finds from a transiting to a natal planet
AllAspects ==
    {check_drishti(transit.planets[t], natal.planets[n]) :
        t \in DOMAIN transit.planets, n \in DOMAIN natal.planets} \ {None}

\* C20: the aspects attributed to natal house h (aspects_to_natal) are exactly
\* the aspects that land on natal planets located in house h, and
\* overall_strength = min(100, 25 * number of transiting planets in h
\* + 0.4 * average strength of those aspects).  (Strength in tenths.)
C20_AspectsLandInTheHouse ==
    pc = "sc_analyzed" =>
        \A h \in 1..12 :
           LET landing == {a \in AllAspects : natal.planets[a.target_planet].house = h}
               average == IF landing = {} THEN 0 ELSE DRISHTI_FULL_STRENGTH
           IN  /\ Range(house_transits[h].aspects_to_natal) = landing
               /\ house_transits[h].overall_strength
                     = Min(1000, 250 * Len(house_transits[h].transiting_planets)
                                 + 4 * average)

\* C21: a transiting planet is listed under natal house h exactly when its
\* sign is the h-th whole-sign house counted from the natal ascendant's sign:
\* ((transit sign index - natal.asc_sign_num) mod 12) + 1 = h.
C21_TransitingPlanetsInNatalHouses ==
    pc = "sc_analyzed" =>
        \A h \in 1..12 : \A p \in DOMAIN transit.planets :
            (p \in Range(house_transits[h].transiting_planets))
               <=> (((transit.planets[p].sign_num - natal.asc_sign_num) % 12) + 1 = h)

(***************************************************************************)
(* Properties of the derived node Ketu                                     *)
(***************************************************************************)
\* Ketu of a planets mapping with longitudes, opposite Rahu: its longitude
\* is Rahu's plus half a circle, its sign the sixth after Rahu's
KetuOpposite(ketu, rahu, ketu_sign, rahu_sign) ==
    /\ ketu.longitude = (rahu.longitude + 180 * LU) % Circle
    /\ ketu_sign = (rahu_sign + 6) % 12

\* C22: in every chart Ketu is the exact opposite of Rahu: Ketu's longitude
\* is (Rahu's longitude + 180) mod 360, Ketu's sign index is (Rahu's sign
\* index + 6) mod 12, and its degree within the sign equals Rahu's.
C22_KetuOppositeRahu ==
    /\ natal_chart # None =>
          KetuOpposite(natal_chart.planets["Ketu"], natal_chart.planets["Rahu"],
                       natal_chart.planets["Ketu"].sign,
                       natal_chart.planets["Rahu"].sign)
    /\ natal # None =>
          KetuOpposite(natal.planets["Ketu"], natal.planets["Rahu"],
                       natal.planets["Ketu"].sign_num,
                       natal.planets["Rahu"].sign_num)
    /\ transit # None =>
          KetuOpposite(transit.planets["Ketu"], transit.planets["Rahu"],
                       transit.planets["Ketu"].sign_num,
                       transit.planets["Rahu"].sign_num)
    /\ transit_planets # None =>
          /\ transit_planets.planets["Ketu"].sign
                = (transit_planets.planets["Rahu"].sign + 6) % 12
          /\ transit_planets.planets["Ketu"].degrees
                = transit_planets.planets["Rahu"].degrees

(***************************************************************************)
(* Properties of the weight tables and of the order of the lords           *)
(***************************************************************************)
\* the weights of a table sum to 120 and are positive integers, and its keys
\* are the lords of DASHA_ORDER in that order
WeightTable(table, table_keys) ==
    /\ \A l \in DOMAIN table : table[l] \in Nat \ {0}
    /\ SumYears(table, DOMAIN table) = 120
    /\ Len(table_keys) = 9
    /\ table_keys = DASHA_ORDER
    /\ DOMAIN table = {table_keys[i] : i \in 1..Len(table_keys)}
    /\ \A l \in DOMAIN table : table[l] = DASHA_YEARS[l]

\* C23: the 9 lord year-weights are positive integers that sum to exactly
\* 120; the three weight tables give each lord the same weight and list the
\* lords in the order of DASHA_ORDER, which both modules with a DASHA_ORDER
\* share; so the years reported for a Mahadasha are its lord's weight in
\* every table.
C23_WeightTablesAgree ==
    /\ WeightTable(CALC_DASHA_YEARS, CALC_DASHA_YEARS_keys)
    /\ WeightTable(DASHA_YEARS, DASHA_YEARS_keys)
    /\ WeightTable(VIMSHOTTARI_DASHA, dasha_sequence)
    /\ CALC_DASHA_ORDER = DASHA_ORDER
    /\ total_units = 120
    /\ dasha # None =>
          /\ dasha.mahadasha_years = DASHA_YEARS[dasha.mahadasha]
          /\ dasha.mahadasha_years = CALC_DASHA_YEARS[dasha.mahadasha]

\* strength_calculator has looked up the weight of the last lord of the order
\* for a current Mahadasha
C23_Witness ==
    /\ pc = "sc_dasha"
    /\ dasha.mahadasha = dasha_sequence[Len(dasha_sequence)]
    /\ dasha.mahadasha_years = 17

\* a list of periods names the 9 lords once each, in the cyclic order of
\* DASHA_ORDER beginning with first_lord
CyclicFrom(list, first_lord) ==
    /\ Len(list) = Len(DASHA_ORDER)
    /\ \A i \in 1..Len(list) :
          list[i].planet
             = DASHA_ORDER[((IndexOf(DASHA_ORDER, first_lord) + i - 1)
                               % Len(DASHA_ORDER)) + 1]
    /\ Cardinality({list[i].planet : i \in 1..Len(list)}) = Len(DASHA_ORDER)

\* every period after the first has its lord's full weight, in hundredths of
\* a year
FullWeights(list) ==
    \A i \in 2..Len(list) : list[i].years = 100 * DASHA_YEARS[list[i].planet]

\* the lord of the nakshatra the Moon is in
BirthLord == DASHA_ORDER[((moon_long \div SPAN) % Len(DASHA_ORDER)) + 1]

\* C24: both nesting levels enumerate the 9 lords in the fixed cyclic order,
\* each lord exactly once: the Mahadasha list starts with the birth nakshatra
\* lord and continues with DASHA_ORDER[(start_idx + i) mod 9], every period
\* after the first with its lord's full weight in years; the Antardasha list
\* of a Mahadasha starts with that Mahadasha's own lord.
C24_LordsInCyclicOrder ==
    /\ dasha_info # None =>
          CyclicFrom(dasha_info.periods, BirthLord) /\ FullWeights(dasha_info.periods)
    /\ vimshottari_dasha # None =>
          /\ CyclicFrom(vimshottari_dasha.periods, BirthLord)
          /\ FullWeights(vimshottari_dasha.periods)
    /\ pc = "calc_antar" => CyclicFrom(antardashas, mahadasha.planet)

\* calculate_antardasha was called for a Saturn Mahadasha, and its list went
\* round the end of DASHA_ORDER
C24_Witness ==
    /\ pc = "calc_antar"
    /\ mahadasha.planet = "Saturn"
    /\ ~mahadasha.is_balance
    /\ antardashas[1].planet = "Saturn"
    /\ antardashas[3].planet = "Ketu"

(***************************************************************************)
(* Properties of the balance period                                        *)
(***************************************************************************)
\* weight(birthLord) * (span - (L mod span)) / span years, in whole minutes
ExactBalanceMinutes ==
    BalanceMinutes(DASHA_YEARS[BirthLord], moon_long % SPAN)

\* the same balance in years, rounded to 2 decimals (hundredths of a year)
ExactBalanceYearsRounded ==
    BalanceYearsRounded(DASHA_YEARS[BirthLord], moon_long % SPAN)

\* C25: the balance period that calculate_vimshottari_dasha,
\* calculate_vimshottari and calculate_birth_dasha compute is
\* weight(birthLord) * (span - (L mod span)) / span years with span = 360/27,
\* birthLord the lord of nakshatra floor(L / span): the first period ends
\* that long after birth and is reported with that many years, more than 0 and
\* at most weight(birthLord).
C25_BalanceIsRemainingFraction ==
    /\ dasha_info # None =>
          /\ dasha_info.periods[1].planet = BirthLord
          /\ dasha_info.periods[1].end_date = DateOf(birth_dt + ExactBalanceMinutes)
          /\ dasha_info.periods[1].years \in ExactBalanceYearsRounded
    /\ vimshottari_dasha # None =>
          /\ vimshottari_dasha.periods[1].planet = BirthLord
          /\ vimshottari_dasha.periods[1].end_date
                = DateOf(birth_dt + ExactBalanceMinutes)
          /\ vimshottari_dasha.balance_at_birth \in ExactBalanceYearsRounded
    /\ dasha # None =>
          /\ calculate_birth_dasha(moon_long).lord = BirthLord
          /\ calculate_birth_dasha(moon_long).years_remaining
                = DASHA_YEARS[BirthLord] * (SPAN - (moon_long % SPAN))
          /\ calculate_birth_dasha(moon_long).years_remaining > 0
          /\ calculate_birth_dasha(moon_long).years_remaining
                <= DASHA_YEARS[BirthLord] * SPAN

(***************************************************************************)
(* Properties of the lookup of dasha_predictions.get_current_dasha         *)
(***************************************************************************)
\* period i of a list holds the date d
Holds(list, i, d) == list[i].start_date <= d /\ d <= list[i].end_date

\* found is the first period of the list, in list order, that holds d; None
\* when no period of the list holds d
FirstInListOrder(found, list, d) ==
    IF \A i \in 1..Len(list) : ~Holds(list, i, d)
    THEN found = None
    ELSE \E i \in 1..Len(list) :
            /\ found = list[i]
            /\ Holds(list, i, d)
            /\ \A j \in 1..(i - 1) : ~Holds(list, j, d)

\* C26: get_current_dasha returns, at both nesting levels, the first period in
\* list order with start_date <= T <= end_date; when T is the boundary date
\* shared by two consecutive periods the earlier of the two is returned, and
\* the returned Antardasha lies inside the returned Mahadasha.
C26_FirstPeriodInListOrder ==
    pc = "dasha" =>
        /\ FirstInListOrder(current_maha, dasha_info.periods, current_date)
        /\ current_maha # None =>
              FirstInListOrder(current_antara, antardasha_periods, current_date)
        /\ \A i \in 1..(Len(dasha_info.periods) - 1) :
              (/\ dasha_info.periods[i].end_date = current_date
               /\ dasha_info.periods[i + 1].start_date = current_date
               /\ \A j \in 1..(i - 1) : ~Holds(dasha_info.periods, j, current_date))
                  => current_maha = dasha_info.periods[i]
        /\ \A i \in 1..(Len(antardasha_periods) - 1) :
              (/\ antardasha_periods[i].end_date = current_date
               /\ antardasha_periods[i + 1].start_date = current_date
               /\ \A j \in 1..(i - 1) : ~Holds(antardasha_periods, j, current_date))
                  => current_antara = antardasha_periods[i]
        /\ (current_maha # None /\ current_antara # None) =>
              /\ current_maha.start_date <= current_antara.start_date
              /\ current_antara.end_date <= current_maha.end_date

\* the lookup was made on the boundary date shared by the first two
\* Antardashas of a Mahadasha, whose first Antardasha lasts longer than a
\* day, and the first of the two was returned
C26_Witness ==
    /\ pc = "dasha"
    /\ current_maha # None
    /\ Len(antardasha_periods) > 1
    /\ antardasha_periods[1].start_date < current_date
    /\ antardasha_periods[1].end_date = current_date
    /\ antardasha_periods[2].start_date = current_date
    /\ current_antara = antardasha_periods[1]

\* C27: whenever get_current_dasha returns a Mahadasha for a date T it also
\* returns an Antardasha, never None, with start_date <= T <= end_date: every
\* date of a Mahadasha belongs to one of its Antardashas.
C27_AntardashaForEveryDate ==
    (pc = "dasha" /\ current_maha # None) =>
        /\ current_antara # None
        /\ current_antara.start_date <= current_date
        /\ current_date <= current_antara.end_date

(***************************************************************************)
(* Properties of mahadasha_start of calculate_current_dasha                *)
(***************************************************************************)
\* the years of the full Mahadashas, from the k-th period of the cycle on,
\* that are completed minutes_elapsed after birth, added to full
RECURSIVE CompletedYears(_, _, _, _)
CompletedYears(moon, minutes_elapsed, k, full) ==
    LET dur == VIMSHOTTARI_DASHA[CycleLord(moon, k)]
    IN  IF minutes_elapsed
              < YearsToMinutesCeil(calculate_birth_dasha(moon).years_remaining)
                   + (full + dur) * MinPerYear
        THEN full
        ELSE CompletedYears(moon, minutes_elapsed, k + 1, full + dur)

\* the minute in which the Mahadasha that holds current_dt began
MahadashaStart ==
    IF InBalancePeriod THEN birth_dt
    ELSE birth_dt
         + YearsToMinutesFloor(calculate_birth_dasha(moon_long).years_remaining)
         + CompletedYears(moon_long, current_dt - birth_dt, 1, 0) * MinPerYear

\* C28: the mahadasha_start returned by calculate_current_dasha is the start
\* of the Mahadasha it returns: birth_dt in the balance period, otherwise
\* birth_dt plus the balance period plus the full durations of all the
\* Mahadashas completed before the returned one.  Stated to the day, as
\* print_dasha_info shows it, for instants of the first 120-year cycle.
C28_MahadashaStartOfReturnedPeriod ==
    (/\ pc = "sc_dasha"
     /\ current_dt >= birth_dt
     /\ current_dt - birth_dt < CycleBoundary(moon_long, 8))
        => DateOf(dasha.mahadasha_start) = DateOf(MahadashaStart)

(***************************************************************************)
(* Properties of main.py: the displayed chart and the aspects              *)
(***************************************************************************)
\* C29: when today's date falls within one of the generated Mahadasha
\* periods, the text returned by format_chart_display contains the CURRENT
\* MAHADASHA block for that period, followed by the table of its Antardasha
\* periods.
C29_CurrentMahadashaDisplayed ==
    (/\ display_date # -1
     /\ vimshottari_dasha # None
     /\ \E i \in 1..Len(vimshottari_dasha.periods) :
           Holds(vimshottari_dasha.periods, i, display_date))
        => \E k \in 1..(Len(chart_display) - 1) :
              /\ chart_display[k].line = "CURRENT MAHADASHA"
              /\ chart_display[k].planet
                    = FirstContaining(vimshottari_dasha.periods, display_date).planet
              /\ chart_display[k + 1].line = "Antardasha"

\* every entry of a planets mapping carries a 'house' in 1..12
HousesGiven(planets_) ==
    \A p \in DOMAIN planets_ :
        "house" \in DOMAIN planets_[p] /\ planets_[p].house \in 1..12

\* a call of calculate_vedic_aspects ended without an exception, and every
\* house it reports as affected is in 1..12
CompletedInRange(result) ==
    /\ result.raised = "none"
    /\ \A k \in 1..Len(result.aspects) :
          \A d \in 1..Len(result.aspects[k].Houses_Affected) :
              result.aspects[k].Houses_Affected[d] \in 1..12

\* C30: in main.py's workflow calculate_vedic_aspects completes without error
\* on the planets mapping of get_transit_chart as it does on the natal
\* mapping: every planet entry it receives carries a 'house' in 1..12 and
\* every house it reports as affected is in 1..12.
C30_AspectsOfBothMappings ==
    /\ natal_aspects # None =>
          HousesGiven(chart.planets) /\ CompletedInRange(natal_aspects)
    /\ transit_planets # None => HousesGiven(transit_planets.planets)
    /\ transit_aspects # None => CompletedInRange(transit_aspects)

====
